---- MODULE Spec2Model ----
(***************************************************************************)
(* Model of the OI scanner (qazqwerty617/OI): the scoring engine of        *)
(* src/scanner.py (StrategyScanner) with the configuration of              *)
(* src/config.py, the scan cycle of src/main.py, the exchange gateway of   *)
(* src/exchanges.py (ExchangeManager), the market capitalization cache of  *)
(* src/marketcap.py (MarketCapProvider) and the outcomes of send_signal of *)
(* src/telegram_bot.py (TelegramNotifier).                                 *)
(*                                                                         *)
(* Units.  USD amounts (oi_usd, mcap, MIN/MAX_MARKET_CAP) are in units of  *)
(* 100 000 USD.  Prices are decimal numbers written in hundredths (102 is  *)
(* the Python float 1.02).  Funding rates are in 1/10000 of a percent      *)
(* (-100 is the Python float -0.01).  Time is in units of SIGNAL_COOLDOWN  *)
(* (1800 s by default).  Scores are in thousandths of a point (25000 is    *)
(* 25.0).                                                                  *)
(*                                                                         *)
(* Arithmetic.  The two filter stages that compare a computed float with a *)
(* threshold (oi_usd / mcap * 100 and (futures - spot) / spot * 100) are   *)
(* computed in IEEE-754 binary64 with round-to-nearest-even, bit for bit,  *)
(* on arbitrary-size naturals held as limb sequences.  The transcendental   *)
(* curves of the scorer (log2, log10, x ** 0.7) are computed in binary     *)
(* fixed point with FracBits fractional bits.                              *)
(***************************************************************************)
EXTENDS Integers, Sequences, FiniteSets, TLC

(***************************************************************************)
(* Naturals of arbitrary size: a sequence of limbs in base 2^LimbBits,     *)
(* least significant first, without leading zero limbs (0 is the empty     *)
(* sequence).  A product of two limbs fits TLC's 32-bit integers.          *)
(***************************************************************************)
LimbBits == 15

Min(a, b) == IF a <= b THEN a ELSE b

Max(a, b) == IF a >= b THEN a ELSE b

Base == 2^LimbBits

BTrim(a) ==
    LET nz == {i \in 1..Len(a) : a[i] # 0}
    IN  IF nz = {} THEN <<>>
        ELSE SubSeq(a, 1, CHOOSE i \in nz : \A j \in nz : j <= i)

BLimb(a, i) ==
    IF i >= 1 /\ i <= Len(a) THEN a[i] ELSE 0

\* A natural below Base^2
BFromNat(n) ==
    BTrim(<<n % Base, n \div Base>>)

\* The number of bits of a limb x: the k with 2^(k-1) <= x < 2^k
LimbLen(x) ==
    CHOOSE k \in 0..LimbBits : x < 2^k /\ (k = 0 \/ x >= 2^(k - 1))

BBitLen(a) ==
    IF a = <<>> THEN 0 ELSE LimbBits * (Len(a) - 1) + LimbLen(a[Len(a)])

\* Bit i of a, the least significant being bit 1
BBit(a, i) ==
    IF i < 1 THEN 0
    ELSE (BLimb(a, ((i - 1) \div LimbBits) + 1) \div 2^((i - 1) % LimbBits)) % 2

\* Is any of the low k bits of a set?
BLowBitsSet(a, k) ==
    \/ \E i \in 1..(k \div LimbBits) : BLimb(a, i) # 0
    \/ BLimb(a, (k \div LimbBits) + 1) % 2^(k % LimbBits) # 0

BMaxLen(a, b) ==
    IF Len(a) >= Len(b) THEN Len(a) ELSE Len(b)

\* a + b.  The carry into limb i comes from a limb j below it whose sum
\* overflows, through limbs whose sum is Base - 1.
BAdd(a, b) ==
    LET sum(j) == BLimb(a, j) + BLimb(b, j)
        carry(i) ==
            IF \E j \in 1..(i - 1) :
                  /\ sum(j) >= Base
                  /\ \A k \in (j + 1)..(i - 1) : sum(k) = Base - 1
            THEN 1 ELSE 0
    IN  BTrim([i \in 1..(BMaxLen(a, b) + 1) |-> (sum(i) + carry(i)) % Base])

\* a - b for a >= b.  The borrow into limb i comes from a limb j below it
\* with a[j] < b[j], through limbs with a[k] = b[k].
BSub(a, b) ==
    LET borrow(i) ==
            IF \E j \in 1..(i - 1) :
                  /\ BLimb(a, j) < BLimb(b, j)
                  /\ \A k \in (j + 1)..(i - 1) : BLimb(a, k) = BLimb(b, k)
            THEN 1 ELSE 0
    IN  BTrim([i \in 1..Len(a) |-> (BLimb(a, i) - BLimb(b, i) - borrow(i)) % Base])

\* -1, 0, 1 as a < b, a = b, a > b (both without leading zeros)
BCmp(a, b) ==
    IF Len(a) > Len(b) THEN 1
    ELSE IF Len(a) < Len(b) THEN -1
    ELSE LET diff == {i \in 1..Len(a) : a[i] # b[i]}
         IN  IF diff = {} THEN 0
             ELSE LET top == CHOOSE i \in diff : \A j \in diff : j <= i
                  IN  IF a[top] > b[top] THEN 1 ELSE -1

\* a * 2^k
BShl(a, k) ==
    IF a = <<>> THEN <<>>
    ELSE LET q == k \div LimbBits
             r == k % LimbBits
             n == Len(a) + 1
         IN  [i \in 1..q |-> 0] \o
             BTrim([i \in 1..n |->
                       ((BLimb(a, i) * 2^r) % Base) +
                       (BLimb(a, i - 1) \div 2^(LimbBits - r))])

\* a \div 2^k
BShr(a, k) ==
    LET q == k \div LimbBits
        r == k % LimbBits
    IN  IF q >= Len(a) THEN <<>>
        ELSE BTrim([i \in 1..(Len(a) - q) |->
                       (BLimb(a, i + q) \div 2^r) +
                       ((BLimb(a, i + q + 1) % 2^r) * 2^(LimbBits - r))])

\* a * x for a limb x: the low halves of the limb products plus their high
\* halves one limb up
BMulLimb(a, x) ==
    BAdd([i \in 1..Len(a) |-> (a[i] * x) % Base],
         <<0>> \o [i \in 1..Len(a) |-> (a[i] * x) \div Base])

\* a * Base^k
BShlLimbs(a, k) ==
    IF a = <<>> THEN <<>> ELSE [i \in 1..k |-> 0] \o a

RECURSIVE BMulFrom(_, _, _)
BMulFrom(a, b, i) ==
    IF i > Len(b) THEN <<>>
    ELSE BAdd(BShlLimbs(BMulLimb(a, b[i]), i - 1), BMulFrom(a, b, i + 1))

BMul(a, b) ==
    BMulFrom(a, b, 1)

\* The largest limb x with b * x <= r, for r < b * Base and b normalised
\* (its top limb is at least Base / 2): the quotient of the top two limbs of
\* r by the top limb of b is x, x + 1 or x + 2.
BQuotLimb(r, b) ==
    LET n     == Len(b)
        guess == Min(Base - 1, (BLimb(r, n + 1) * Base + BLimb(r, n)) \div b[n])
        fits(x) == BCmp(BMulLimb(b, x), r) <= 0
    IN  IF fits(guess) THEN guess
        ELSE IF fits(guess - 1) THEN guess - 1
        ELSE guess - 2

\* Long division, one quotient limb per step from the top limb of a: the
\* quotient and the remainder of a / b, b normalised.
RECURSIVE BDivFrom(_, _, _, _, _)
BDivFrom(a, b, i, q, r) ==
    IF i = 0 THEN [quot |-> BTrim(q), rem |-> r]
    ELSE LET r2 == BTrim(<<a[i]>> \o r)
             x  == BQuotLimb(r2, b)
         IN  IF BCmp(r2, b) < 0
             THEN BDivFrom(a, b, i - 1, <<0>> \o q, r2)
             ELSE BDivFrom(a, b, i - 1, <<x>> \o q, BSub(r2, BMulLimb(b, x)))

\* The quotient and the remainder of a / b, b > 0: both are shifted left
\* until b is normalised, which leaves the quotient unchanged.
BDivMod(a, b) ==
    LET s  == LimbBits - LimbLen(b[Len(b)])
        qr == BDivFrom(BShl(a, s), BShl(b, s), Len(BShl(a, s)), <<>>, <<>>)
    IN  [quot |-> qr.quot, rem |-> BShr(qr.rem, s)]

(***************************************************************************)
(* Python floats: IEEE-754 binary64, round to nearest, ties to even.  A    *)
(* nonzero float is [neg, man, exp] with man a natural of exactly MantBits *)
(* bits and value (-1)^neg * man * 2^exp; zero has man = <<>>.  The values *)
(* of the model stay far from the subnormal and overflow ranges, which are *)
(* not modelled.                                                           *)
(***************************************************************************)
MantBits == 53

\* Fixed point of the scorer's curves: FracBits fractional bits
FracBits == 14

One == 2^FracBits

\* Fractional bits of a fixed-point logarithm
LogBits == 10

\* Bits of precision kept beyond the mantissa before rounding a quotient.
GuardBits == 70

DZero == [neg |-> FALSE, man |-> <<>>, exp |-> 0]

\* The float nearest to n * 2^e (plus a nonzero fraction below n's last bit
\* when sticky), for a natural n.
DRound(neg, n, e, sticky) ==
    IF n = <<>> THEN DZero
    ELSE IF BBitLen(n) <= MantBits
    THEN [neg |-> neg, man |-> BShl(n, MantBits - BBitLen(n)),
          exp |-> e - (MantBits - BBitLen(n))]
    ELSE LET s    == BBitLen(n) - MantBits
             kept == BShr(n, s)
             half == BBit(n, s) = 1
             rest == BLowBitsSet(n, s - 1) \/ sticky
             up   == half /\ (rest \/ BBit(kept, 1) = 1)
             m    == IF up THEN BAdd(kept, <<1>>) ELSE kept
         IN  IF BBitLen(m) > MantBits
             THEN [neg |-> neg, man |-> BShr(m, 1), exp |-> e + s + 1]
             ELSE [neg |-> neg, man |-> m, exp |-> e + s]

\* float(n): a natural number below Base^2 is converted exactly.
DFromNat(n) ==
    DRound(FALSE, BFromNat(n), 0, FALSE)

\* The float a decimal literal n/d parses to (n >= 0, d > 0): n/d rounded once.
DFromRatio(n, d) ==
    LET qr == BDivMod(BShl(BFromNat(n), GuardBits), BFromNat(d))
    IN  DRound(FALSE, qr.quot, -GuardBits, qr.rem # <<>>)

DNeg(a) ==
    IF a.man = <<>> THEN a ELSE [a EXCEPT !.neg = ~a.neg]

DAbs(a) ==
    [a EXCEPT !.neg = FALSE]

\* -1, 0, 1 as |a| < |b|, |a| = |b|, |a| > |b|
DCmpMag(a, b) ==
    IF a.man = <<>> /\ b.man = <<>> THEN 0
    ELSE IF a.man = <<>> THEN -1
    ELSE IF b.man = <<>> THEN 1
    ELSE IF a.exp > b.exp THEN 1
    ELSE IF a.exp < b.exp THEN -1
    ELSE BCmp(a.man, b.man)

\* -1, 0, 1 as a < b, a = b, a > b
DCmp(a, b) ==
    IF a.neg /\ ~b.neg THEN (IF a.man = <<>> /\ b.man = <<>> THEN 0 ELSE -1)
    ELSE IF ~a.neg /\ b.neg THEN (IF a.man = <<>> /\ b.man = <<>> THEN 0 ELSE 1)
    ELSE IF a.neg THEN -DCmpMag(a, b)
    ELSE DCmpMag(a, b)

DLess(a, b) == DCmp(a, b) < 0

DGreater(a, b) == DCmp(a, b) > 0

\* a - b for floats of the same sign (prices are positive): the exact
\* difference, rounded once.
DSub(a, b) ==
    IF b.man = <<>> THEN a
    ELSE IF a.man = <<>> THEN DNeg(b)
    ELSE LET e  == IF a.exp <= b.exp THEN a.exp ELSE b.exp
             ma == BShl(a.man, a.exp - e)
             mb == BShl(b.man, b.exp - e)
             c  == BCmp(ma, mb)
         IN  IF c = 0 THEN DZero
             ELSE IF c > 0 THEN DRound(a.neg, BSub(ma, mb), e, FALSE)
             ELSE DRound(~a.neg, BSub(mb, ma), e, FALSE)

\* a / b, b nonzero: the exact quotient, rounded once.
DDiv(a, b) ==
    IF a.man = <<>> THEN DZero
    ELSE LET qr == BDivMod(BShl(a.man, GuardBits), b.man)
         IN  DRound(a.neg # b.neg, qr.quot, a.exp - b.exp - GuardBits,
                    qr.rem # <<>>)

\* a * b: the exact product, rounded once.
DMul(a, b) ==
    IF a.man = <<>> \/ b.man = <<>> THEN DZero
    ELSE DRound(a.neg # b.neg, BMul(a.man, b.man), a.exp + b.exp, FALSE)

\* The float as fixed point: floor(|a| * 2^FracBits), for |a| < 2^FracBits
DToFix(a) ==
    IF a.man = <<>> THEN 0
    ELSE LET k == a.exp + FracBits
             n == IF k >= 0 THEN BShl(a.man, k) ELSE BShr(a.man, -k)
         IN  BLimb(n, 1) + Base * BLimb(n, 2)

(***************************************************************************)
(* Fixed point for the scorer's curves: One is 1.0; logarithms are in      *)
(* units of 2^-LogBits.                                                    *)
(***************************************************************************)
\* The number of halvings of x that stay at or above One: the integer part
\* of log2(x / One), x >= One
RECURSIVE Log2Int(_)
Log2Int(x) ==
    IF x >= 2 * One THEN 1 + Log2Int(x \div 2) ELSE 0

\* k fractional bits of log2(x / One) for One <= x < 2 * One, by squaring
RECURSIVE Log2Frac(_, _)
Log2Frac(x, k) ==
    IF k = 0 THEN 0
    ELSE LET y == (x * x) \div One
         IN  IF y >= 2 * One
             THEN 2^(k - 1) + Log2Frac(y \div 2, k - 1)
             ELSE Log2Frac(y, k - 1)

\* math.log2(x) in units of 2^-LogBits for a fixed-point x >= One
Log2Fix(x) ==
    Log2Int(x) * 2^LogBits + Log2Frac(x \div 2^Log2Int(x), LogBits)

\* 2^(-2^-i) in fixed point, i = 1..LogBits
HalfRoots ==
    <<11585, 13777, 15024, 15689, 16033, 16208, 16296, 16340, 16362, 16373>>

\* 2^(-f / 2^LogBits) in fixed point for 0 <= f < 2^LogBits: the product of
\* the roots of 1/2 selected by the bits of f, from bit i on
RECURSIVE Exp2NegFrac(_, _)
Exp2NegFrac(f, i) ==
    IF i > LogBits THEN One
    ELSE LET rest == Exp2NegFrac(f, i + 1)
         IN  IF (f \div 2^(LogBits - i)) % 2 = 1
             THEN (HalfRoots[i] * rest) \div One
             ELSE rest

\* 2^(-e / 2^LogBits) in fixed point, e >= 0
Exp2Neg(e) ==
    IF e \div 2^LogBits > FracBits THEN 0
    ELSE Exp2NegFrac(e % 2^LogBits, 1) \div 2^(e \div 2^LogBits)

\* x ** 0.7 in fixed point for a fixed-point x in 0..One
Pow07(x) ==
    IF x = 0 THEN 0
    ELSE IF x >= One THEN One
    ELSE Exp2Neg((7 * Log2Fix((One * One) \div x)) \div 10)

(***************************************************************************)
(* src/config.py                                                           *)
(***************************************************************************)
OI_MCAP_RATIO == 25

MAX_FUNDING_RATE == -100

MAX_PRICE_SPREAD == 2

MIN_MARKET_CAP == 30

SIGNAL_COOLDOWN == 1

\* MAX_MARKET_CAP is read from the environment (default "0"): the values of
\* the model are the default and one positive bound.
MaxMarketCapValues == {0, 1000}

(***************************************************************************)
(* Optional values: None, or a value v held as <<v>>.                      *)
(***************************************************************************)
None == <<>>

Some(v) == <<v>>

VARIABLES
    MAX_MARKET_CAP,       \* config.MAX_MARKET_CAP
    now,                  \* time.time()
    cooldowns,            \* StrategyScanner._cooldowns: key -> timestamp
    signals_generated,    \* StrategyScanner.signals_generated
    coins_scanned,        \* StrategyScanner.coins_scanned
    coins_passed_filter,  \* StrategyScanner.coins_passed_filter
    all_data,             \* the all_data of the last evaluate_batch call
    mcap_lookup,          \* the mcap_lookup of the last evaluate_batch call
    stages,               \* where _evaluate_one returned, per record of all_data
    signals,              \* the list the last evaluate_batch call returned
    cycle,                \* OIScannerBot._cycle
    cycle_scanned,        \* history: records evaluated since the cycle began
    emitted,              \* history: <<base, exchange>> -> time of its last Signal
    unpruned,             \* a second scanner, given the same calls and never swept
    phase,                \* "input": all_data waits to be evaluated; "idle" otherwise
    results,              \* _scan_cycle: eid -> the list scan_one(eid) returned
    sending,              \* _scan_cycle: all_signals still to send, once sorted
    delivered,            \* history: the signals send_signal delivered this cycle
    exchanges,            \* ExchangeManager.exchanges: the ids of the connected exchanges
    futures_symbols_cache,\* ExchangeManager._futures_symbols_cache: eid -> pairs
    call,                 \* the frame of the fetch_all_data call in progress
    oi_requested,         \* history: the symbols fetch_open_interest was called for
    fr_requested,         \* history: the symbols fetch_funding_rate was called for
    semaphores,           \* ExchangeManager._semaphores: eid -> free permits
    tasks,                \* eid -> the per-symbol tasks gathered for the exchange
    requests,             \* history: eid -> the per-symbol requests issued, <<kind, symbol>>
    cache,                \* MarketCapProvider._cache: SYMBOL -> mcap
    cache_time,           \* MarketCapProvider._cache_time
    loading,              \* MarketCapProvider._loading
    lock_holder,          \* MarketCapProvider._lock: the caller that holds it, or None
    lock_waiters,         \* MarketCapProvider._lock: the callers that wait, in order
    callers,              \* caller -> the frame of its refresh_cache call
    init_errors,          \* ExchangeManager._init_errors: eid -> message
    init_tasks,           \* eid -> the frame of its _init_exchange task
    initialized,          \* where initialize() is: "no", "running", "returned"
    scans,                \* _scan_cycle: eid -> the frame of its scan_one task
    oi_batch,             \* the _fetch_oi_batch call in progress and its fetch_one tasks
    swept,                \* history: flips at every cleanup_cooldowns call
    cycle_pc,             \* _scan_cycle followed to its end: "rest", "scan", "send"
    send_log              \* history: what became of every signal of all_signals

\* The second half of _scan_cycle: the results gathered and the signals sent
cycleVars ==
    <<results, sending, delivered>>

\* The exchange gateway and the call of fetch_all_data in progress
gatewayVars ==
    <<exchanges, futures_symbols_cache, call, oi_requested, fr_requested>>

\* The scanner, its configuration and clock, and its histories
scannerVars ==
    <<MAX_MARKET_CAP, now, cooldowns, signals_generated, coins_scanned,
      coins_passed_filter, all_data, mcap_lookup, stages, signals, cycle,
      cycle_scanned, emitted, unpruned, phase>>

\* The semaphores of the exchanges and the tasks that queue on them
taskVars ==
    <<semaphores, tasks, requests>>

\* The capitalization provider and the refresh_cache calls in progress
providerVars ==
    <<cache, cache_time, loading, lock_holder, lock_waiters, callers>>

\* initialize() and its _init_exchange tasks
initVars ==
    <<init_errors, init_tasks, initialized>>

\* The scan_one tasks _scan_cycle gathers
scanVars ==
    <<scans>>

\* The _fetch_oi_batch call followed task by task
batchVars ==
    <<oi_batch>>

\* History of cleanup_cooldowns
sweepVars ==
    <<swept>>

\* _scan_cycle followed across cycles, and the history of its send loop
deliveryVars ==
    <<cycle_pc, send_log>>

\* What the steps of the scanner leave alone
outsideScanner ==
    <<cycleVars, gatewayVars, taskVars, providerVars, initVars, scanVars, batchVars, sweepVars, deliveryVars>>

\* What the steps of the second half of _scan_cycle leave alone
outsideCycle ==
    <<gatewayVars, taskVars, providerVars, initVars, scanVars, batchVars, sweepVars, deliveryVars>>

\* What the steps of a fetch_all_data call leave alone
outsideGateway ==
    <<scannerVars, cycleVars, taskVars, providerVars, initVars, scanVars, batchVars, sweepVars, deliveryVars>>

\* What the steps of the per-symbol tasks leave alone
outsideTasks ==
    <<scannerVars, cycleVars, exchanges, futures_symbols_cache, call,
      oi_requested, fr_requested, providerVars, initVars, scanVars, batchVars, sweepVars, deliveryVars>>

vars ==
    <<MAX_MARKET_CAP, now, cooldowns, signals_generated, coins_scanned,
      coins_passed_filter, all_data, mcap_lookup, stages, signals, cycle,
      cycle_scanned, emitted, unpruned, phase, outsideScanner>>

(***************************************************************************)
(* src/scanner.py: StrategyScanner                                         *)
(***************************************************************************)
\* The float a price written in hundredths parses to
Price(p) ==
    DFromRatio(p, 100)

\* str.upper() on the base assets of the model
Upper(base) ==
    CASE base = "aaa" -> "AAA"
      [] base = "bbb" -> "BBB"
      [] OTHER -> base

\* dict.get(key): the value at key, or None
Get(map, key) ==
    IF key \in DOMAIN map THEN Some(map[key]) ELSE None

\* A cooldown key made of the base asset alone
CooldownKeyBaseOnly(base, exchange) ==
    base

\* A cooldown key made of the exchange alone
CooldownKeyExchangeOnly(base, exchange) ==
    exchange

\* f"{base}_{coin_data['exchange']}"
CooldownKey(base, exchange) ==
    base \o "_" \o exchange

\* A lookup that never finds the stamp
CooldownStampNone(cd, key) ==
    0

\* self._cooldowns.get(cooldown_key, 0)
CooldownStamp(cd, key) ==
    IF key \in DOMAIN cd THEN cd[key] ELSE 0

\* round(x, 1) of a score in thousandths
Round1(x) ==
    ((x + 50) \div 100) * 100

\* The amounts and prices the records and lookups of the model are made of
OiAmounts == {5, 10, 30, 300}

McapAmounts == {10, 40, 1000, 2000}

FuturesPrices == {98, 100, 101, 102, 103, 5100}

SpotPrices == {100, 5000}

\* (oi_usd / mcap) * 100, computed once for the amounts of the model
OiMcapRatios ==
    [p \in OiAmounts \X McapAmounts |->
        DMul(DDiv(DFromNat(p[1]), DFromNat(p[2])), DFromNat(100))] @@ <<>>

OiMcapRatio(oi_usd, mcap) ==
    OiMcapRatios[<<oi_usd, mcap>>]

\* ((futures_price - spot_price) / spot_price) * 100, computed once for the
\* prices of the model
PriceSpreads ==
    [p \in FuturesPrices \X SpotPrices |->
        DMul(DDiv(DSub(Price(p[1]), Price(p[2])), Price(p[2])), DFromNat(100))] @@ <<>>

PriceSpread(futures_price, spot_price) ==
    PriceSpreads[<<futures_price, spot_price>>]

\* config.OI_MCAP_RATIO and config.MAX_PRICE_SPREAD as the floats they are
OiMcapRatioBound == DFromNat(OI_MCAP_RATIO)

PriceSpreadBound == DFromNat(MAX_PRICE_SPREAD)

\* The OI curve without its cap of 25
OiScoreUncapped(oi_mcap_ratio) ==
    (12000 * Log2Fix(One + DToFix(oi_mcap_ratio) \div OI_MCAP_RATIO)) \div 2^LogBits

\* 1. OI/MCap: min(25.0, 12.0 * math.log2(1 + oi_mcap_ratio / threshold))
OiScore(oi_mcap_ratio) ==
    LET ratio_normalized == DToFix(oi_mcap_ratio) \div OI_MCAP_RATIO
    IN  Min(25000, (12000 * Log2Fix(One + ratio_normalized)) \div 2^LogBits)

\* The funding curve with every segment one breakpoint late: 0 at 0.01,
\* 10 at 0.05, 18 at 0.1, 22 at 0.5
FundScoreShifted(funding_rate) ==
    LET abs_fund == IF funding_rate < 0 THEN -funding_rate ELSE funding_rate
    IN  IF abs_fund >= 5000 THEN 22000
        ELSE IF abs_fund >= 1000 THEN 18000 + ((abs_fund - 1000) * 4000) \div 4000
        ELSE IF abs_fund >= 500 THEN 10000 + ((abs_fund - 500) * 8000) \div 500
        ELSE IF abs_fund >= 100 THEN ((abs_fund - 100) * 10000) \div 400
        ELSE 0

\* The funding curve without its top segment: the slope of 0.1..0.5 goes on
FundScoreNoTop(funding_rate) ==
    LET abs_fund == IF funding_rate < 0 THEN -funding_rate ELSE funding_rate
    IN  IF abs_fund >= 1000 THEN 22000 + ((abs_fund - 1000) * 3000) \div 4000
        ELSE IF abs_fund >= 500 THEN 18000 + ((abs_fund - 500) * 4000) \div 500
        ELSE IF abs_fund >= 100 THEN 10000 + ((abs_fund - 100) * 8000) \div 400
        ELSE (abs_fund * 10000) \div 100

\* 2. Funding: the piecewise-linear curve of abs(funding_rate)
FundScore(funding_rate) ==
    LET abs_fund == IF funding_rate < 0 THEN -funding_rate ELSE funding_rate
    IN  IF abs_fund >= 5000 THEN 25000
        ELSE IF abs_fund >= 1000 THEN 22000 + ((abs_fund - 1000) * 3000) \div 4000
        ELSE IF abs_fund >= 500 THEN 18000 + ((abs_fund - 500) * 4000) \div 500
        ELSE IF abs_fund >= 100 THEN 10000 + ((abs_fund - 100) * 8000) \div 400
        ELSE (abs_fund * 10000) \div 100

\* A spread sub-score that gives nothing to a record without a spot price
SpreadScoreNoSpotZero(price_spread) ==
    IF price_spread # None
    THEN Max(0, (25000 * (One - Pow07(DToFix(DAbs(price_spread[1])) \div MAX_PRICE_SPREAD))) \div One)
    ELSE 0

\* 3. Spread: max(0.0, 25.0 * (1.0 - (abs_spread / max_spread) ** 0.7)), or
\* 10.0 without a spot price
SpreadScore(price_spread) ==
    IF price_spread # None
    THEN LET abs_spread == DAbs(price_spread[1])
             x == DToFix(abs_spread) \div MAX_PRICE_SPREAD
         IN  Max(0, (25000 * (One - Pow07(x))) \div One)
    ELSE 10000

\* 4. MCap: max(0.0, 25.0 * (1.0 - math.log10(1 + ratio * 9) / math.log10(10)))
\* with ratio = mcap / max_cap, or 25.0 for mcap <= 0
McapScore(mcap, max_cap) ==
    IF mcap <= 0 THEN 25000
    ELSE LET ratio == (mcap * One) \div max_cap
         IN  Max(0, 25000 - (25000 * Log2Fix(One + ratio * 9)) \div Log2Fix(10 * One))

\* The end of _calculate_score: the total of the four sub-scores as the
\* code sums them, before rounding, and the rounded factor_scores
ScoreTotal(oi_score, fund_score, spread_score, mcap_score, has_spread) ==
    [score |->
        Max(0, Min(100, (oi_score + fund_score + spread_score + mcap_score) \div 1000)),
     factor_scores |->
         [oi      |-> Round1(oi_score),
          funding |-> Round1(Min(25000, fund_score)),
          spread  |-> IF has_spread THEN Round1(spread_score) ELSE 10000,
          mcap    |-> Round1(Min(25000, mcap_score))],
     sub |-> [oi |-> oi_score, funding |-> fund_score,
              spread |-> spread_score, mcap |-> mcap_score]]

\* _calculate_score: (score, factor_scores); sub holds the four sub-scores
\* before rounding
CalculateScore(oi_mcap_ratio, funding_rate, price_spread, mcap, max_cap) ==
    ScoreTotal(OiScore(oi_mcap_ratio), FundScore(funding_rate),
               SpreadScore(price_spread), McapScore(mcap, max_cap),
               price_spread # None)

\* A scanner whose counters start from zero at every call
ScannerFresh ==
    [cooldowns |-> cooldowns, signals_generated |-> 0, coins_scanned |-> 0,
     coins_passed_filter |-> 0]

\* The scanner's own fields, as _evaluate_one reads and writes them
Scanner ==
    [cooldowns |-> cooldowns, signals_generated |-> signals_generated,
     coins_scanned |-> coins_scanned, coins_passed_filter |-> coins_passed_filter]

\* A return None of _evaluate_one at the named stage; every return comes
\* after coins_scanned += 1
Reject(sc, stage) ==
    [sc |-> [sc EXCEPT !.coins_scanned = @ + 1], signal |-> None, stage |-> stage]

\* An emission that stamps the cooldown of every exchange for the base
EmitSignalStampingAll(sc, coin_data, mcap, oi_mcap_ratio, price_spread, sf, t) ==
    [sc |-> [sc EXCEPT
                !.coins_scanned = @ + 1,
                !.coins_passed_filter = @ + 1,
                !.cooldowns =
                    [k \in {CooldownKey(coin_data.base, e) : e \in {"binance", "bybit"}}
                       |-> t] @@ @,
                !.signals_generated = @ + 1],
     signal |-> Some(
         [exchange |-> coin_data.exchange,
          symbol |-> coin_data.symbol,
          base |-> coin_data.base,
          score |-> sf.score]),
     stage |-> "signal"]

\* The end of _evaluate_one: the cooldown is stamped, the signal is counted
\* and the Signal is built from the score sf
EmitSignal(sc, coin_data, mcap, oi_mcap_ratio, price_spread, sf, t) ==
    [sc |-> [sc EXCEPT
                !.coins_scanned = @ + 1,
                !.coins_passed_filter = @ + 1,
                !.cooldowns =
                    (CooldownKey(coin_data.base, coin_data.exchange) :> t) @@ @,
                !.signals_generated = @ + 1],
     signal |-> Some(
         [exchange |-> coin_data.exchange,
          exchange_name |-> coin_data.exchange_name,
          symbol |-> coin_data.symbol,
          base |-> coin_data.base,
          futures_price |-> coin_data.futures_price,
          spot_price |-> coin_data.spot_price,
          oi_usd |-> coin_data.oi_usd,
          mcap |-> mcap,
          oi_mcap_ratio |-> oi_mcap_ratio,
          funding_rate |-> coin_data.funding_rate,
          price_spread |-> price_spread,
          score |-> sf.score,
          factor_scores |-> sf.factor_scores,
          timestamp |-> t]),
     stage |-> "signal"]

\* _evaluate_one from the OI stage on, for a known capitalization within the
\* bounds: oi_mcap_ratio and price_spread are the values the code computes
\* at its OI and spread stages (price_spread is None without a spot price)
FilterStages(sc, coin_data, mcap, oi_mcap_ratio, price_spread, t, max_cap) ==
    IF DLess(oi_mcap_ratio, OiMcapRatioBound) THEN Reject(sc, "oi")
    ELSE IF coin_data.funding_rate > MAX_FUNDING_RATE THEN Reject(sc, "funding")
    ELSE IF price_spread # None /\ DGreater(DAbs(price_spread[1]), PriceSpreadBound)
    THEN Reject(sc, "spread")
    ELSE IF t - CooldownStamp(sc.cooldowns,
                              CooldownKey(coin_data.base, coin_data.exchange))
            < SIGNAL_COOLDOWN
    THEN [sc |-> [sc EXCEPT !.coins_scanned = @ + 1,
                            !.coins_passed_filter = @ + 1],
          signal |-> None, stage |-> "cooldown"]
    ELSE EmitSignal(sc, coin_data, mcap, oi_mcap_ratio, price_spread,
                    CalculateScore(oi_mcap_ratio, coin_data.funding_rate,
                                   price_spread, mcap, max_cap),
                    t)

\* A price_spread that is never computed
SpreadOfNone(coin_data) ==
    None

\* The price_spread of _evaluate_one: computed only with a spot price
SpreadOf(coin_data) ==
    IF coin_data.spot_price # None /\ coin_data.spot_price[1] > 0
    THEN Some(PriceSpread(coin_data.futures_price, coin_data.spot_price[1]))
    ELSE None

\* _evaluate_one(coin_data, mcap) at time t, with max_cap = config.MAX_MARKET_CAP:
\* the scanner after the call, the Signal returned (or None) and the place
\* of the return
EvaluateOne(sc, coin_data, mcap, t, max_cap) ==
    IF mcap = None THEN Reject(sc, "mcap")
    ELSE IF mcap[1] <= 0 THEN Reject(sc, "mcap")
    ELSE IF mcap[1] > max_cap THEN Reject(sc, "mcap")
    ELSE FilterStages(sc, coin_data, mcap[1],
                      OiMcapRatio(coin_data.oi_usd, mcap[1]),
                      SpreadOf(coin_data), t, max_cap)

\* signals.sort(key=lambda s: s.score, reverse=True): a stable sort, so x goes
\* before the first signal that does not score higher
RECURSIVE InsertByScore(_, _)
InsertByScore(x, sorted) ==
    IF sorted = <<>> THEN <<x>>
    ELSE IF Head(sorted).score > x.score
    THEN <<Head(sorted)>> \o InsertByScore(x, Tail(sorted))
    ELSE <<x>> \o sorted

\* A sort that leaves the list as it is
SortByScoreNone(list) ==
    list

RECURSIVE SortByScore(_)
SortByScore(list) ==
    IF list = <<>> THEN <<>>
    ELSE InsertByScore(Head(list), SortByScore(Tail(list)))

\* A pass that hands the next record the scanner as it was before this one
CollectStale(run, one) ==
    [sc |-> run.sc, signals |-> run.signals \o one.signal,
     stages |-> Append(run.stages, one.stage)]

\* One pass of the loop of evaluate_batch: the result one of _evaluate_one
\* joins the signals collected so far
Collect(run, one) ==
    [sc |-> one.sc, signals |-> run.signals \o one.signal,
     stages |-> Append(run.stages, one.stage)]

\* The loop of evaluate_batch from record i on: all_data is the sequence of
\* the dict's values in its iteration order
RECURSIVE EvaluateFrom(_, _, _, _, _, _)
EvaluateFrom(run, data, lookup, t, max_cap, i) ==
    IF i > Len(data) THEN run
    ELSE EvaluateFrom(
             Collect(run, EvaluateOne(run.sc, data[i],
                                      Get(lookup, Upper(data[i].base)), t, max_cap)),
             data, lookup, t, max_cap, i + 1)

\* The end of evaluate_batch: the signals are sorted
SortSignals(run) ==
    [sc |-> run.sc, signals |-> SortByScore(run.signals), stages |-> run.stages]

\* evaluate_batch(all_data, mcap_lookup)
EvaluateBatch(sc, data, lookup, t, max_cap) ==
    SortSignals(EvaluateFrom([sc |-> sc, signals |-> <<>>, stages |-> <<>>],
                             data, lookup, t, max_cap, 1))

\* A sweep that removes every entry
CleanupCooldownsAll(cd, t) ==
    [k \in {} |-> t]

\* A sweep that also removes the entries whose age is twice the cooldown
CleanupCooldownsAtTwice(cd, t) ==
    [k \in {x \in DOMAIN cd : (t - cd[x]) < SIGNAL_COOLDOWN * 2} |-> cd[k]]

\* cleanup_cooldowns at time t: the cooldown map without the expired entries
CleanupCooldowns(cd, t) ==
    LET expired == {k \in DOMAIN cd : (t - cd[k]) > SIGNAL_COOLDOWN * 2}
    IN  [k \in DOMAIN cd \ expired |-> cd[k]]

(***************************************************************************)
(* The inputs of the model                                                 *)
(***************************************************************************)
\* time.time() when the scanner is constructed, and how far the clock runs
StartTime == 10

MaxTime == 3

\* Records evaluated in one behaviour; records in one all_data; scan cycles
MaxScanned == 2

MaxBatch == 2

MaxCycles == 2

Exchanges == {"binance", "bybit"}

\* ExchangeManager.EXCHANGE_NAMES
ExchangeName(eid) ==
    CASE eid = "binance" -> "Binance"
      [] eid = "bybit" -> "Bybit"
      [] OTHER -> eid

\* One entry of fetch_all_data's result
CoinData(eid, base, oi_usd, funding_rate, futures_price, spot_price) ==
    [exchange |-> eid, exchange_name |-> ExchangeName(eid),
     symbol |-> base \o "/USDT:USDT", base |-> base, oi_usd |-> oi_usd,
     funding_rate |-> funding_rate, futures_price |-> futures_price,
     spot_price |-> spot_price]

\* The records the exchanges deliver across cycles.  On binance: AAA passes
\* the four filters with a spot price, BBB passes them without one or has a
\* funding rate that is too high.  On bybit: AAA passes the four filters.
SampleData(eid) ==
    IF eid = "binance"
    THEN {CoinData(eid, "AAA", 30, -600, 101, Some(100)),
          CoinData(eid, "BBB", 10, -600, 101, None),
          CoinData(eid, "BBB", 10, -50, 101, None)}
    ELSE {CoinData(eid, "AAA", 10, -600, 101, None)}

\* The capitalization lookups across cycles: AAA is known, BBB is known or not
SampleLookups ==
    {[b \in B |-> 40] : B \in {{"AAA"}, {"AAA", "BBB"}}}

\* The sequences of at most n records of S with distinct symbols: the
\* values of a dict keyed by symbol
RECURSIVE Batches(_, _)
Batches(S, n) ==
    IF n = 0 THEN {<<>>}
    ELSE LET shorter == Batches(S, n - 1)
         IN  shorter \cup
             {Append(p[1], p[2]) :
                 p \in {q \in shorter \X S :
                           /\ Len(q[1]) = n - 1
                           /\ \A i \in 1..Len(q[1]) : q[1][i].symbol # q[2].symbol}}

EmptyMap == [k \in {} |-> 0]

\* No scan_one has returned and nothing is sorted or sent
InitCycleVars ==
    /\ results = EmptyMap
    /\ sending = None
    /\ delivered = <<>>

\* The frame of fetch_all_data when no call is in progress
NoCall ==
    [pc |-> "idle", eid |-> "", target_bases |-> {}, tickers |-> EmptyMap,
     funding_rates |-> EmptyMap, target_pairs |-> <<>>, oi_data |-> EmptyMap,
     ret |-> None, exc |-> None, failed |-> {}, ticker_calls |-> 0,
     fallback_price |-> EmptyMap]

\* No exchange is connected and no call is in progress
InitGatewayVars ==
    /\ exchanges = {}
    /\ futures_symbols_cache = EmptyMap
    /\ call = NoCall
    /\ oi_requested = {}
    /\ fr_requested = {}

\* No semaphore is made and no task is gathered
InitTaskVars ==
    /\ semaphores = EmptyMap
    /\ tasks = EmptyMap
    /\ requests = EmptyMap

\* MarketCapProvider.__init__, with no refresh_cache call made
InitProviderVars ==
    /\ cache = EmptyMap
    /\ cache_time = 0
    /\ loading = FALSE
    /\ lock_holder = None
    /\ lock_waiters = <<>>
    /\ callers = EmptyMap

\* initialize() is not called
InitInitVars ==
    /\ init_errors = EmptyMap
    /\ init_tasks = EmptyMap
    /\ initialized = "no"

\* No scan_one task is made
InitScanVars ==
    scans = EmptyMap

\* No _fetch_oi_batch call is followed
InitBatchVars ==
    oi_batch = [has_oi |-> FALSE, tickers |-> EmptyMap, tasks |-> EmptyMap]

\* cleanup_cooldowns was not called
InitSweepVars ==
    swept = FALSE

\* No _scan_cycle is followed and no signal was handed to the send loop
InitDeliveryVars ==
    /\ cycle_pc = "rest"
    /\ send_log = <<>>

\* The state of everything outside the scanner before it is used
InitOutsideScanner ==
    /\ InitCycleVars
    /\ InitGatewayVars
    /\ InitTaskVars
    /\ InitProviderVars
    /\ InitInitVars
    /\ InitScanVars
    /\ InitBatchVars
    /\ InitSweepVars
    /\ InitDeliveryVars

\* The second scanner after construction: it has returned nothing and no
\* lookup of it has differed from the first scanner's
NeverSwept ==
    [sc |-> [cooldowns |-> EmptyMap, signals_generated |-> 0, coins_scanned |-> 0,
             coins_passed_filter |-> 0],
     signals |-> <<>>, pruned_keys |-> {}]

(***************************************************************************)
(* The scanner across cycles: the start of a scan cycle, the               *)
(* evaluate_batch calls of the cycle, the clock, and cleanup_cooldowns.    *)
(***************************************************************************)
Init ==
    /\ MAX_MARKET_CAP \in MaxMarketCapValues
    /\ now = StartTime
    /\ cooldowns = EmptyMap
    /\ signals_generated = 0
    /\ coins_scanned = 0
    /\ coins_passed_filter = 0
    /\ all_data = <<>>
    /\ mcap_lookup = EmptyMap
    /\ stages = <<>>
    /\ signals = <<>>
    /\ cycle = 0
    /\ cycle_scanned = 0
    /\ emitted = EmptyMap
    /\ unpruned = NeverSwept
    /\ phase = "idle"
    /\ InitOutsideScanner

\* evaluate_batch(data, lookup) on the second scanner: what it returns, and
\* the keys it looked up at the cooldown stage that it holds and the first
\* scanner has lost to cleanup_cooldowns
EvaluateUnpruned(data, lookup) ==
    LET r == EvaluateBatch(unpruned.sc, data, lookup, now, MAX_MARKET_CAP)
        looked_up == {CooldownKey(data[i].base, data[i].exchange) :
                          i \in {j \in 1..Len(data) :
                                    r.stages[j] \in {"cooldown", "signal"}}}
    IN  [sc |-> r.sc, signals |-> r.signals,
         pruned_keys |->
             looked_up \cap (DOMAIN unpruned.sc.cooldowns \ DOMAIN cooldowns)]

\* The pairs for which a Signal is in list
EmittedPairs(list) ==
    {<<list[i].base, list[i].exchange>> : i \in 1..Len(list)}

\* The scanner and the histories after a call that returned r
Returned(r, data, lookup) ==
    /\ cooldowns' = r.sc.cooldowns
    /\ signals_generated' = r.sc.signals_generated
    /\ coins_scanned' = r.sc.coins_scanned
    /\ coins_passed_filter' = r.sc.coins_passed_filter
    /\ all_data' = data
    /\ mcap_lookup' = lookup
    /\ stages' = r.stages
    /\ signals' = r.signals
    /\ cycle_scanned' = cycle_scanned + Len(data)
    /\ emitted' = [p \in EmittedPairs(r.signals) |-> now] @@ emitted
    /\ unpruned' = EvaluateUnpruned(data, lookup)
    /\ phase' = "idle"
    /\ UNCHANGED <<MAX_MARKET_CAP, now, cycle>>

\* One call evaluate_batch(data, lookup) on the scanner
Evaluate(data, lookup) ==
    Returned(EvaluateBatch(Scanner, data, lookup, now, MAX_MARKET_CAP), data, lookup)

\* _scan_cycle begins: the cycle is counted; no field of the scanner is touched
ScanCycleBegin ==
    /\ phase = "idle"
    /\ cycle < MaxCycles
    /\ cycle' = cycle + 1
    /\ cycle_scanned' = 0
    /\ UNCHANGED <<MAX_MARKET_CAP, now, cooldowns, signals_generated,
                   coins_scanned, coins_passed_filter, all_data, mcap_lookup,
                   stages, signals, emitted, unpruned, phase, outsideScanner>>

\* scan_one(eid) of the cycle reaches self.scanner.evaluate_batch
EvaluateBatchCall ==
    /\ phase = "idle"
    /\ cycle > 0
    /\ \E eid \in Exchanges :
         \E data \in Batches(SampleData(eid), MaxBatch) :
           \E lookup \in SampleLookups :
             /\ coins_scanned + Len(data) <= MaxScanned
             /\ Evaluate(data, lookup)
             /\ UNCHANGED outsideScanner

\* The clock advances
Tick ==
    /\ now < StartTime + MaxTime
    /\ now' = now + 1
    /\ UNCHANGED <<MAX_MARKET_CAP, cooldowns, signals_generated, coins_scanned,
                   coins_passed_filter, all_data, mcap_lookup, stages, signals,
                   cycle, cycle_scanned, emitted, unpruned, phase, outsideScanner>>

\* cleanup_cooldowns()
CleanupCall ==
    /\ phase = "idle"
    /\ cooldowns' = CleanupCooldowns(cooldowns, now)
    /\ swept' = ~swept
    /\ UNCHANGED <<MAX_MARKET_CAP, now, signals_generated, coins_scanned,
                   coins_passed_filter, all_data, mcap_lookup, stages, signals,
                   cycle, cycle_scanned, emitted, unpruned, phase, cycleVars, gatewayVars,
                   taskVars, providerVars, initVars, scanVars, batchVars,
                   deliveryVars>>

Next ==
    \/ ScanCycleBegin
    \/ EvaluateBatchCall
    \/ Tick
    \/ CleanupCall

Spec == Init /\ [][Next]_vars

(***************************************************************************)
(* One record through _evaluate_one: a fresh scanner in its first cycle    *)
(* is handed one record and one lookup, drawn from the product of the      *)
(* model's amounts, funding rates and prices.                              *)
(***************************************************************************)
FundingRates == {0, -50, -100, -148, -500, -1000, -3000, -5000, -6000}

ScoreRecords ==
    {CoinData("binance", "AAA", oi, f, fp, sp) :
        oi \in OiAmounts, f \in FundingRates, fp \in FuturesPrices,
        sp \in {None} \cup {Some(x) : x \in SpotPrices}}

ScoreLookups ==
    {EmptyMap} \cup {[b \in {"AAA"} |-> m] : m \in McapAmounts}

InitScore ==
    /\ MAX_MARKET_CAP \in MaxMarketCapValues
    /\ now = StartTime
    /\ cooldowns = EmptyMap
    /\ signals_generated = 0
    /\ coins_scanned = 0
    /\ coins_passed_filter = 0
    /\ \E record \in ScoreRecords : all_data = <<record>>
    /\ mcap_lookup \in ScoreLookups
    /\ stages = <<>>
    /\ signals = <<>>
    /\ cycle = 1
    /\ cycle_scanned = 0
    /\ emitted = EmptyMap
    /\ unpruned = NeverSwept
    /\ phase = "input"
    /\ InitOutsideScanner

\* evaluate_batch on the record and the lookup drawn
EvaluateInput ==
    /\ phase = "input"
    /\ Evaluate(all_data, mcap_lookup)
    /\ UNCHANGED outsideScanner

NextScore ==
    EvaluateInput

SpecScore == InitScore /\ [][NextScore]_vars

(***************************************************************************)
(* Properties of the filter stages and the cooldown                        *)
(***************************************************************************)
\* The capitalization evaluate_batch looked up for record i of all_data
McapOf(i) ==
    Get(mcap_lookup, Upper(all_data[i].base))

\* This step is an evaluate_batch call on a non-empty all_data
Called ==
    cycle_scanned' > cycle_scanned

\* How many stages of seq are in S
CountStages(seq, S) ==
    Cardinality({i \in 1..Len(seq) : seq[i] \in S})

\* A signal for the record's (base, exchange) was emitted less than
\* SIGNAL_COOLDOWN before now
RecentlyEmitted(record) ==
    /\ <<record.base, record.exchange>> \in DOMAIN emitted
    /\ now - emitted[<<record.base, record.exchange>>] < SIGNAL_COOLDOWN

\* oi_usd / mcap * 100 >= OI_MCAP_RATIO, in exact arithmetic
OiAtLeastThreshold(record, mcap) ==
    record.oi_usd * 100 >= OI_MCAP_RATIO * mcap

\* |futures - spot| / spot * 100 <= MAX_PRICE_SPREAD, in exact arithmetic
SpreadWithinBound(record) ==
    LET d == record.futures_price - record.spot_price[1]
    IN  (IF d < 0 THEN -d ELSE d) * 100 <= MAX_PRICE_SPREAD * record.spot_price[1]

\* C1: across evaluate_batch calls, a record that passes the capitalization,
\* OI, funding and spread stages is rejected at the cooldown stage if and
\* only if a signal for its (base, exchange) was emitted less than
\* SIGNAL_COOLDOWN ago.  So a pair that never emitted is never rejected at
\* the cooldown stage, and a record that yields a signal had no signal for
\* its pair within the last SIGNAL_COOLDOWN: two signals of one pair are at
\* least SIGNAL_COOLDOWN apart.
CooldownIffRecentSignal ==
    [][Called =>
          \A i \in 1..Len(stages') :
              stages'[i] \in {"cooldown", "signal"} =>
                  (stages'[i] = "cooldown" <=> RecentlyEmitted(all_data'[i]))]_vars

\* A record is rejected at the cooldown stage after its pair emitted
CooldownRejection ==
    \E i \in 1..Len(stages) :
        /\ stages[i] = "cooldown"
        /\ <<all_data[i].base, all_data[i].exchange>> \in DOMAIN emitted

\* The (base, exchange) pair of a record
BaseAndExchange(record) ==
    <<record.base, record.exchange>>

\* The pairs of the records the exchanges deliver
SamplePairs ==
    UNION {{BaseAndExchange(record) : record \in SampleData(eid)} : eid \in Exchanges}

\* A signal of another pair than the record's was emitted less than
\* SIGNAL_COOLDOWN before now
OtherPairRecentlyEmitted(record) ==
    \E q \in DOMAIN emitted :
        /\ q # BaseAndExchange(record)
        /\ now - emitted[q] < SIGNAL_COOLDOWN

\* C31: distinct (base, exchange) pairs have distinct cooldown keys, and a
\* signal of one pair never makes the cooldown stage reject a record of
\* another pair: a record that passed the four filters, whose own pair
\* emitted no signal within the last SIGNAL_COOLDOWN, yields a signal
\* although a signal of another pair (the same base on another exchange,
\* or another base on the same exchange) was emitted within the window.
DistinctPairsDistinctEntries ==
    /\ [](\A p, q \in SamplePairs :
              p # q => CooldownKey(p[1], p[2]) # CooldownKey(q[1], q[2]))
    /\ [][Called =>
             \A i \in 1..Len(stages') :
                 (/\ stages'[i] \in {"cooldown", "signal"}
                  /\ OtherPairRecentlyEmitted(all_data'[i])
                  /\ ~RecentlyEmitted(all_data'[i]))
                     => stages'[i] = "signal"]_vars

\* A call accepted a record while the stamp of a signal of another pair of
\* the same exchange, emitted by an earlier call at the same time, is in
\* the cooldown map
AcceptedBesideFreshStamp ==
    /\ Len(all_data) = 1
    /\ stages = <<"signal">>
    /\ \E q \in DOMAIN emitted :
           /\ q[1] # all_data[1].base
           /\ q[2] = all_data[1].exchange
           /\ emitted[q] = now
           /\ CooldownKey(q[1], q[2]) \in DOMAIN cooldowns
           /\ cooldowns[CooldownKey(q[1], q[2])] = now

\* C2: a record whose capitalization is below MIN_MARKET_CAP is rejected at
\* the capitalization stage and yields no signal, whatever its open
\* interest, funding rate and spread are.
BelowMinimumRejected ==
    \A i \in 1..Len(stages) :
        (McapOf(i) # None /\ McapOf(i)[1] < MIN_MARKET_CAP) => stages[i] = "mcap"

\* C3: with MAX_MARKET_CAP = 0 (no limit) a record with a known
\* capitalization at or above MIN_MARKET_CAP passes the capitalization stage.
NoLimitPassesCapitalization ==
    \A i \in 1..Len(stages) :
        (/\ MAX_MARKET_CAP = 0
         /\ McapOf(i) # None
         /\ McapOf(i)[1] >= MIN_MARKET_CAP) => stages[i] # "mcap"

\* C4: a Signal is returned for a record only if every filter stage passed:
\* its capitalization is known, oi_usd / mcap * 100 is at least
\* OI_MCAP_RATIO, its funding rate is not above MAX_FUNDING_RATE, and no
\* spot price is known or |spread| is at most MAX_PRICE_SPREAD; the signals
\* returned are those of the records that reached the end.
SignalOnlyIfStagesPassed ==
    /\ \A i \in 1..Len(stages) :
           stages[i] = "signal" =>
               /\ McapOf(i) # None
               /\ OiAtLeastThreshold(all_data[i], McapOf(i)[1])
               /\ all_data[i].funding_rate <= MAX_FUNDING_RATE
               /\ all_data[i].spot_price = None \/ SpreadWithinBound(all_data[i])
    /\ Len(signals) = CountStages(stages, {"signal"})
    /\ \A j \in 1..Len(signals) :
           \E i \in 1..Len(stages) :
               /\ stages[i] = "signal"
               /\ signals[j].symbol = all_data[i].symbol
               /\ signals[j].exchange = all_data[i].exchange

\* A signal for a record with a spot price whose spread is at the bound and
\* whose OI ratio is at the threshold
SignalAtTheBounds ==
    \E i \in 1..Len(stages) :
        /\ stages[i] = "signal"
        /\ all_data[i].spot_price = Some(5000)
        /\ all_data[i].futures_price = 5100
        /\ all_data[i].oi_usd * 100 = OI_MCAP_RATIO * McapOf(i)[1]
        /\ all_data[i].funding_rate = MAX_FUNDING_RATE

AcceptedKeys(data, where) ==
    {CooldownKey(data[i].base, data[i].exchange) :
         i \in {j \in 1..Len(data) : where[j] = "signal"}}

\* C23: an evaluate_batch call changes the cooldown map only at the keys of
\* the records it accepts.  The key of every accepted record is set to the
\* current time; every other entry, the entries of the keys of rejected
\* records (the cooldown stage included) among them, is as before, and no
\* other key appears.
CooldownsChangeOnlyAtEmission ==
    [][Called =>
          /\ DOMAIN cooldowns' = DOMAIN cooldowns \cup AcceptedKeys(all_data', stages')
          /\ \A k \in AcceptedKeys(all_data', stages') : cooldowns'[k] = now
          /\ \A k \in DOMAIN cooldowns \ AcceptedKeys(all_data', stages') :
                 cooldowns'[k] = cooldowns[k]]_vars

\* A call at a later time accepted one pair while the stamp of the earlier
\* signal of another pair is in the map: the map holds the new stamp beside
\* the older one
StampBesideOlderStamp ==
    /\ Len(all_data) = 1
    /\ stages = <<"signal">>
    /\ now > StartTime
    /\ cooldowns[CooldownKey(all_data[1].base, all_data[1].exchange)] = now
    /\ \E k \in DOMAIN cooldowns : cooldowns[k] = StartTime

\* C28: a cleanup_cooldowns call removes exactly the entries whose age is
\* greater than twice SIGNAL_COOLDOWN: the entries of age up to twice
\* SIGNAL_COOLDOWN stay, with their stamps, and nothing else of the scanner
\* changes.
CleanupRemovesExactlyExpired ==
    [][swept' # swept =>
          /\ DOMAIN cooldowns' =
                 {k \in DOMAIN cooldowns : now - cooldowns[k] <= 2 * SIGNAL_COOLDOWN}
          /\ \A k \in DOMAIN cooldowns' : cooldowns'[k] = cooldowns[k]
          /\ signals_generated' = signals_generated
          /\ coins_scanned' = coins_scanned
          /\ coins_passed_filter' = coins_passed_filter]_vars

\* A call removed the entry of a pair that emitted more than twice
\* SIGNAL_COOLDOWN ago, and the entry whose age is exactly twice
\* SIGNAL_COOLDOWN is in the map
SweptOneKeptOne ==
    /\ swept
    /\ \E p \in DOMAIN emitted :
           /\ now - emitted[p] > 2 * SIGNAL_COOLDOWN
           /\ CooldownKey(p[1], p[2]) \notin DOMAIN cooldowns
    /\ \E k \in DOMAIN cooldowns : now - cooldowns[k] = 2 * SIGNAL_COOLDOWN

\* C32: cleanup_cooldowns is transparent.  Every evaluate_batch call
\* returns the signals that the same call returns on a second scanner
\* that was given the same calls at the same times and was never swept,
\* wherever the cleanup_cooldowns calls fall between them; and every
\* entry that a cleanup_cooldowns call removes is at least
\* SIGNAL_COOLDOWN old.
PruningIsTransparent ==
    /\ [](signals = unpruned.signals)
    /\ [][swept' # swept =>
             \A k \in DOMAIN cooldowns \ DOMAIN cooldowns' :
                 now - cooldowns[k] >= SIGNAL_COOLDOWN]_vars

\* A call accepted a record whose cooldown entry the second scanner holds
\* and cleanup_cooldowns had removed from the first
AcceptedAfterPruning ==
    /\ swept
    /\ Len(all_data) = 1
    /\ stages = <<"signal">>
    /\ unpruned.pruned_keys =
           {CooldownKey(all_data[1].base, all_data[1].exchange)}
    /\ signals = unpruned.signals
    /\ cooldowns = unpruned.sc.cooldowns

ScoreIsFlooredSum ==
    \A j \in 1..Len(signals) :
        \A r \in {CalculateScore(signals[j].oi_mcap_ratio, signals[j].funding_rate,
                                 signals[j].price_spread, signals[j].mcap,
                                 MAX_MARKET_CAP)} :
            /\ \A f \in {"oi", "funding", "spread", "mcap"} :
                   /\ r.sub[f] \in 0..25000
                   /\ signals[j].factor_scores[f] \in 0..25000
            /\ signals[j].score = r.score
            /\ signals[j].score \in 0..100
            /\ signals[j].score =
                   (r.sub.oi + r.sub.funding + r.sub.spread + r.sub.mcap) \div 1000

\* A signal whose sub-scores do not add up to a whole number, one of them
\* being 25 and another 0
FractionalTotal ==
    \E j \in 1..Len(signals) :
        /\ signals[j].factor_scores.funding = 25000
        /\ signals[j].factor_scores.spread = 0
        /\ signals[j].factor_scores.oi % 1000 # 0
        /\ signals[j].score \in 1..99

\* The line through (x0, y0) and (x1, y1) at x
Interpolate(x, x0, y0, x1, y1) ==
    y0 + ((x - x0) * (y1 - y0)) \div (x1 - x0)

\* C8, as stated: the funding sub-score is 0 at |funding| = 0.01, 10 at
\* 0.05 and 18 at 0.1.
FundingBreakpointsAsStated ==
    \A j \in 1..Len(signals) :
        /\ signals[j].funding_rate = -100 => signals[j].factor_scores.funding = 0
        /\ signals[j].funding_rate = -500 => signals[j].factor_scores.funding = 10000
        /\ signals[j].funding_rate = -1000 => signals[j].factor_scores.funding = 18000

\* C8: the funding sub-score is piecewise-linear in |funding_rate| with
\* value 10 at 0.01, 18 at 0.05, 22 at 0.1 and 25 at 0.5; a record with
\* funding_rate = -0.01 gets a funding sub-score of 10.
FundingBreakpoints ==
    \A j \in 1..Len(signals) :
        \A a \in {-signals[j].funding_rate} :
            /\ a = 100 => signals[j].factor_scores.funding = 10000
            /\ a = 500 => signals[j].factor_scores.funding = 18000
            /\ a = 1000 => signals[j].factor_scores.funding = 22000
            /\ (a >= 100 /\ a <= 500) =>
                   signals[j].factor_scores.funding =
                       Round1(Interpolate(a, 100, 10000, 500, 18000))
            /\ (a >= 500 /\ a <= 1000) =>
                   signals[j].factor_scores.funding =
                       Round1(Interpolate(a, 500, 18000, 1000, 22000))
            /\ (a >= 1000 /\ a <= 5000) =>
                   signals[j].factor_scores.funding =
                       Round1(Interpolate(a, 1000, 22000, 5000, 25000))

\* A signal for a record with funding_rate = -0.01
SignalAtFundingBound ==
    \E j \in 1..Len(signals) :
        /\ signals[j].funding_rate = -100
        /\ signals[j].factor_scores.funding = 10000

\* C9: every record with funding_rate at or below -0.5 gets a funding
\* sub-score of exactly 25.
FundingScoreMax ==
    \A j \in 1..Len(signals) :
        signals[j].funding_rate <= -5000 =>
            /\ FundScore(signals[j].funding_rate) = 25000
            /\ signals[j].factor_scores.funding = 25000

\* A signal for a record with funding_rate below -0.5
SignalBelowHalfPercent ==
    \E j \in 1..Len(signals) :
        /\ signals[j].funding_rate = -6000
        /\ signals[j].factor_scores.funding = 25000

\* C10: a record with futures price 1.02 and spot price 1.00, whose |spread|
\* equals MAX_PRICE_SPREAD, and which passes the capitalization, OI and
\* funding stages, is accepted, and its spread sub-score is 0.
SpreadBoundInclusive ==
    \A i \in 1..Len(stages) :
        (/\ all_data[i].futures_price = 102
         /\ all_data[i].spot_price = Some(100)
         /\ McapOf(i) # None
         /\ McapOf(i)[1] <= MAX_MARKET_CAP
         /\ OiAtLeastThreshold(all_data[i], McapOf(i)[1])
         /\ all_data[i].funding_rate <= MAX_FUNDING_RATE) =>
            /\ stages[i] = "signal"
            /\ \E j \in 1..Len(signals) :
                   /\ signals[j].symbol = all_data[i].symbol
                   /\ signals[j].factor_scores.spread = 0

\* C30: the capitalization sub-score is 25 for a capitalization at or
\* below MIN_MARKET_CAP, lies in [0, 25], and is strictly lower for the
\* higher of two capitalizations at or above MIN_MARKET_CAP.
McapScoreFullAtMinimum ==
    \A j \in 1..Len(signals) :
        /\ signals[j].factor_scores.mcap \in 0..25000
        /\ signals[j].mcap <= MIN_MARKET_CAP =>
               signals[j].factor_scores.mcap = 25000
        /\ \A k \in 1..Len(signals) :
               (signals[j].mcap >= MIN_MARKET_CAP /\ signals[k].mcap > signals[j].mcap)
                   => McapScore(signals[k].mcap, MAX_MARKET_CAP)
                          < McapScore(signals[j].mcap, MAX_MARKET_CAP)

\* C11: a record without a spot price skips the spread stage: when it
\* passes the capitalization, OI, funding and cooldown stages it is
\* accepted, its signal carries no price_spread, and its spread sub-score
\* is the fixed value 10.
NoSpotSkipsSpreadStage ==
    \A i \in 1..Len(stages) :
        /\ all_data[i].spot_price = None => stages[i] # "spread"
        /\ (/\ all_data[i].spot_price = None
            /\ McapOf(i) # None
            /\ McapOf(i)[1] <= MAX_MARKET_CAP
            /\ OiAtLeastThreshold(all_data[i], McapOf(i)[1])
            /\ all_data[i].funding_rate <= MAX_FUNDING_RATE) =>
               /\ stages[i] = "signal"
               /\ \E j \in 1..Len(signals) :
                      /\ signals[j].symbol = all_data[i].symbol
                      /\ signals[j].spot_price = None
                      /\ signals[j].price_spread = None
                      /\ SpreadScore(signals[j].price_spread) = 10000
                      /\ signals[j].factor_scores.spread = 10000

\* A signal for a record without a spot price, whose futures price is far
\* from every spot price of the model
SignalWithoutSpot ==
    \E j \in 1..Len(signals) :
        /\ signals[j].spot_price = None
        /\ signals[j].futures_price = 5100
        /\ signals[j].factor_scores.spread = 10000

(***************************************************************************)
(* One scan cycle from the scan of the exchanges on (_scan_cycle, steps 3  *)
(* and 4): scan_one(eid) of every connected exchange evaluates what the    *)
(* exchange delivered, in any interleaving; the lists are merged in the    *)
(* order of the connected exchanges, sorted, and sent one signal at a time.*)
(***************************************************************************)
\* The records an exchange can deliver in the cycle: two assets, each with
\* an open interest at the threshold or far above it
CycleData(eid) ==
    {CoinData(eid, base, oi, -600, 101, None) :
        base \in {"AAA", "BBB"}, oi \in {10, 300}}

\* The capitalizations of the cycle
CycleLookup ==
    [b \in {"AAA", "BBB"} |-> 40]

\* The orders in which get_connected_exchanges can list the exchanges
ExchangeOrders ==
    {<<"binance", "bybit">>, <<"bybit", "binance">>}

\* A merge that stops at the first exchange that returned nothing
RECURSIVE ExtendAllUntilEmpty(_, _)
ExtendAllUntilEmpty(order, res) ==
    IF order = <<>> \/ res[Head(order)] = <<>> THEN <<>>
    ELSE res[Head(order)] \o ExtendAllUntilEmpty(Tail(order), res)

\* all_signals.extend(r) for the results in the order of the exchanges
RECURSIVE ExtendAll(_, _)
ExtendAll(order, res) ==
    IF order = <<>> THEN <<>>
    ELSE res[Head(order)] \o ExtendAll(Tail(order), res)

InitCycle ==
    /\ MAX_MARKET_CAP \in MaxMarketCapValues
    /\ now = StartTime
    /\ cooldowns = EmptyMap
    /\ signals_generated = 0
    /\ coins_scanned = 0
    /\ coins_passed_filter = 0
    /\ all_data = <<>>
    /\ mcap_lookup = EmptyMap
    /\ stages = <<>>
    /\ signals = <<>>
    /\ cycle = 1
    /\ cycle_scanned = 0
    /\ emitted = EmptyMap
    /\ unpruned = NeverSwept
    /\ phase = "idle"
    /\ InitOutsideScanner

\* scan_one(eid): evaluate_batch on what the exchange delivered; an empty
\* all_data returns [] without a call
ScanOne ==
    /\ sending = None
    /\ \E eid \in Exchanges \ DOMAIN results :
         \E data \in Batches(CycleData(eid), MaxBatch) :
           /\ Evaluate(data, CycleLookup)
           /\ results' = (eid :> signals') @@ results
           /\ UNCHANGED <<sending, delivered, outsideCycle>>

\* The results are gathered: all_signals is extended in the order of the
\* exchanges and sorted by score
SortAllSignals ==
    /\ sending = None
    /\ DOMAIN results = Exchanges
    /\ \E order \in ExchangeOrders :
         sending' = Some(SortByScore(ExtendAll(order, results)))
    /\ UNCHANGED <<MAX_MARKET_CAP, now, cooldowns, signals_generated,
                   coins_scanned, coins_passed_filter, all_data, mcap_lookup,
                   stages, signals, cycle, cycle_scanned, emitted, unpruned, phase,
                   results, delivered, outsideCycle>>

\* send_signal for the next of all_signals: the message is delivered, or
\* the send fails and the loop goes on
SendSignal ==
    /\ sending # None
    /\ sending[1] # <<>>
    /\ sending' = Some(Tail(sending[1]))
    /\ \E ok \in BOOLEAN :
         delivered' = IF ok THEN Append(delivered, Head(sending[1])) ELSE delivered
    /\ UNCHANGED <<MAX_MARKET_CAP, now, cooldowns, signals_generated,
                   coins_scanned, coins_passed_filter, all_data, mcap_lookup,
                   stages, signals, cycle, cycle_scanned, emitted, unpruned, phase,
                   results, outsideCycle>>

NextCycle ==
    \/ ScanOne
    \/ SortAllSignals
    \/ SendSignal

SpecCycle == InitCycle /\ [][NextCycle]_vars

\* No signal of list comes before one with a strictly higher score
ScoreDescending(list) ==
    \A i \in 1..Len(list) : \A j \in i..Len(list) : list[i].score >= list[j].score

\* C12: the list evaluate_batch returns is ordered by score descending,
\* and the merged signals of the cycle are delivered in score-descending
\* order: no signal is delivered before a signal of the same cycle with a
\* strictly higher score, delivered or still to send.
DeliveredByScoreDescending ==
    /\ ScoreDescending(signals)
    /\ \A eid \in DOMAIN results : ScoreDescending(results[eid])
    /\ ScoreDescending(delivered)
    /\ sending # None =>
           /\ ScoreDescending(delivered \o sending[1])
           /\ \A j \in 1..Len(delivered) :
                  \E eid \in Exchanges : \E i \in 1..Len(results[eid]) :
                      results[eid][i] = delivered[j]

\* Three signals of two exchanges were delivered with falling scores, the
\* last exchange's signal first, and the last evaluate_batch call returned
\* its two signals in the reverse of the order of its records
DeliveredAcrossExchanges ==
    /\ sending = Some(<<>>)
    /\ Len(delivered) = 3
    /\ delivered[1].score > delivered[3].score
    /\ delivered[1].exchange # delivered[3].exchange
    /\ Len(signals) = 2
    /\ stages = <<"signal", "signal">>
    /\ signals[1].symbol = all_data[2].symbol
    /\ signals[1].score > signals[2].score

(***************************************************************************)
(* src/exchanges.py: ExchangeManager.  A dict is a function on its keys.   *)
(* What the exchange answers to a request is an outcome: the exception it  *)
(* raises (exc), or the raw payload.  Raw funding rates are in millionths  *)
(* (-6 is the float -0.000006, which is -0.0006 percent).  An operator     *)
(* that models a coroutine yields [ret |-> what it returns, exc |-> the    *)
(* exception that leaves it, or None].                                     *)
(***************************************************************************)
\* Maximum of parallel per-symbol requests to one exchange
OI_CONCURRENCY == 5

\* pairs[:100] of the funding fallback
FundingFallbackLimit == 100

\* The exceptions a request to an exchange raises
Exceptions ==
    {"RequestTimeout", "RateLimitExceeded", "NotSupported"}

Return(value) ==
    [ret |-> value, exc |-> None]

Raise(kind) ==
    [ret |-> None, exc |-> Some(kind)]

\* The swap symbol of a base asset
SwapSymbol(base) ==
    base \o "/USDT:USDT"

\* One entry of _futures_symbols_cache[eid]
Pair(eid, base) ==
    [symbol |-> SwapSymbol(base), base |-> base, exchange |-> eid]

\* The symbols of a list of pairs
Symbols(pairs) ==
    {pairs[i].symbol : i \in 1..Len(pairs)}

\* _fetch_all_tickers with the except clause left out
FetchAllTickersNoCatch(connected, outcome) ==
    IF ~connected THEN Return(EmptyMap)
    ELSE IF outcome.exc # None THEN Raise(outcome.exc[1])
    ELSE Return([symbol \in {x \in DOMAIN outcome.raw :
                                /\ outcome.raw[x] # None
                                /\ outcome.raw[x][1] > 0} |-> outcome.raw[symbol][1]])

\* _fetch_all_tickers: {symbol: last} for the tickers with a positive last
\* price; {} when the request raises
FetchAllTickers(connected, outcome) ==
    IF ~connected THEN Return(EmptyMap)
    ELSE IF outcome.exc # None THEN Return(EmptyMap)
    ELSE Return([symbol \in {x \in DOMAIN outcome.raw :
                                /\ outcome.raw[x] # None
                                /\ outcome.raw[x][1] > 0} |-> outcome.raw[symbol][1]])

\* float(rate) * 100: a raw rate as a percentage, in 1/10000 of a percent
FundingPct(rate) ==
    rate * 100

\* fetch_one of _fetch_funding_rates_individually: the rate of the symbol,
\* or None when the request raises or carries no fundingRate
FundingOne(outcome) ==
    IF outcome.exc # None THEN None
    ELSE IF outcome.raw = None THEN None
    ELSE Some(FundingPct(outcome.raw[1]))

\* A fallback that makes a task for every pair
FallbackPairsUnlimited(pairs) ==
    pairs

\* pairs[:100]: the pairs the funding fallback makes a task for
FallbackPairs(pairs) ==
    SubSeq(pairs, 1, Min(FundingFallbackLimit, Len(pairs)))

\* _fetch_funding_rates_individually: has_single is
\* hasattr(exchange, "fetch_funding_rate"), singles the outcome per symbol
FetchFundingRatesIndividually(connected, has_single, singles, pairs) ==
    IF ~connected \/ ~has_single THEN Return(EmptyMap)
    ELSE Return([symbol \in {x \in Symbols(FallbackPairs(pairs)) :
                                FundingOne(singles[x]) # None}
                    |-> FundingOne(singles[symbol])[1]])

\* _fetch_all_funding_rates: the bulk request when the exchange has one,
\* the fallback when it has none or when it raises
FetchAllFundingRates(connected, has_bulk, bulk, has_single, singles, pairs) ==
    IF ~connected THEN Return(EmptyMap)
    ELSE IF has_bulk /\ bulk.exc = None
    THEN Return([symbol \in {x \in DOMAIN bulk.raw : bulk.raw[x] # None}
                    |-> FundingPct(bulk.raw[symbol][1])])
    ELSE FetchFundingRatesIndividually(connected, has_single, singles, pairs)

\* The symbols fetch_funding_rate is called for
FundingRequests(connected, has_bulk, bulk, has_single, pairs) ==
    IF connected /\ ~(has_bulk /\ bulk.exc = None) /\ has_single
    THEN Symbols(FallbackPairs(pairs))
    ELSE {}

\* fetch_one of _fetch_oi_batch: openInterestValue when it is positive,
\* else openInterestAmount * price when both are there, else None; every
\* exception gives None
OiOne(has_oi, outcome, price) ==
    IF ~has_oi THEN None
    ELSE IF outcome.exc # None THEN None
    ELSE IF outcome.raw = None THEN None
    ELSE IF outcome.raw.value # None /\ outcome.raw.value[1] > 0
    THEN Some(outcome.raw.value[1])
    ELSE IF outcome.raw.amount # None /\ outcome.raw.amount[1] # 0
    THEN IF price # None /\ price[1] > 0
         THEN Some(outcome.raw.amount[1] * price[1])
         ELSE None
    ELSE None

\* History: the price fetch_one multiplied the openInterestAmount by, for
\* the symbols whose open interest came from amount * price
OiFallbackPrices(has_oi, tickers, outcomes, pairs) ==
    [symbol \in {x \in Symbols(pairs) :
                    /\ has_oi
                    /\ outcomes[x].exc = None
                    /\ outcomes[x].raw # None
                    /\ ~(outcomes[x].raw.value # None /\ outcomes[x].raw.value[1] > 0)
                    /\ outcomes[x].raw.amount # None
                    /\ outcomes[x].raw.amount[1] # 0
                    /\ x \in DOMAIN tickers
                    /\ tickers[x] > 0}
        |-> tickers[symbol]]

\* The dict _fetch_oi_batch builds from the results of its tasks
OiResults(has_oi, tickers, outcomes, pairs) ==
    [symbol \in {x \in Symbols(pairs) :
                    OiOne(has_oi, outcomes[x], Get(tickers, x)) # None}
        |-> OiOne(has_oi, outcomes[symbol], Get(tickers, symbol))[1]]

\* _fetch_oi_batch: the tickers are fetched again, then one request per pair
FetchOiBatch(connected, has_oi, tickers_again, outcomes, pairs) ==
    IF ~connected THEN Return(EmptyMap)
    ELSE Return(OiResults(has_oi, FetchAllTickers(connected, tickers_again).ret,
                          outcomes, pairs))

\* The symbols fetch_open_interest is called for
OiRequests(connected, has_oi, pairs) ==
    IF connected /\ has_oi THEN Symbols(pairs) ELSE {}

\* _fetch_spot_prices: {BASE: last} of the BASE/USDT spot tickers of the
\* target bases with a positive last price; {} when anything raises, the
\* close() of the spot instance included.  The raw tickers are keyed by the
\* base of their BASE/USDT symbol.
FetchSpotPrices(connected, target_bases, outcome, close_raises) ==
    IF ~connected \/ target_bases = {} THEN Return(EmptyMap)
    ELSE IF outcome.exc # None \/ close_raises THEN Return(EmptyMap)
    ELSE Return([base \in {x \in DOMAIN outcome.raw \cap target_bases :
                              /\ outcome.raw[x] # None
                              /\ outcome.raw[x][1] > 0} |-> outcome.raw[base][1]])

\* target_pairs without the filter on the base
TargetPairsUnfiltered(futures_pairs, target_bases) ==
    futures_pairs

\* target_pairs of fetch_all_data: the pairs of the target bases, or every
\* pair when target_bases is empty or None
TargetPairs(futures_pairs, target_bases) ==
    IF target_bases # {}
    THEN SelectSeq(futures_pairs, LAMBDA pair : pair.base \in target_bases)
    ELSE futures_pairs

\* The pair of the list with the symbol
PairOf(pairs, symbol) ==
    CHOOSE pair \in {pairs[i] : i \in 1..Len(pairs)} : pair.symbol = symbol

\* dict.get(key, default)
GetOr(map, key, default) ==
    IF key \in DOMAIN map THEN map[key] ELSE default

\* A join that gives a record to every target pair and defaults what is
\* missing to 0
AssembleDefaulted(eid, target_pairs, tickers, funding_rates, oi_data, spot_prices) ==
    [symbol \in Symbols(target_pairs) |->
        [exchange |-> eid, exchange_name |-> ExchangeName(eid),
         symbol |-> symbol, base |-> PairOf(target_pairs, symbol).base,
         oi_usd |-> GetOr(oi_data, symbol, 0),
         funding_rate |-> GetOr(funding_rates, symbol, 0),
         futures_price |-> GetOr(tickers, symbol, 0),
         spot_price |-> Get(spot_prices, PairOf(target_pairs, symbol).base)]]

\* Step 6 of fetch_all_data: a record for every target pair whose price,
\* funding rate and open interest are all there, price and open interest
\* positive
Assemble(eid, target_pairs, tickers, funding_rates, oi_data, spot_prices) ==
    [symbol \in {x \in Symbols(target_pairs) :
                    /\ x \in DOMAIN tickers
                    /\ x \in DOMAIN funding_rates
                    /\ x \in DOMAIN oi_data
                    /\ tickers[x] > 0
                    /\ oi_data[x] > 0} |->
        [exchange |-> eid, exchange_name |-> ExchangeName(eid),
         symbol |-> symbol, base |-> PairOf(target_pairs, symbol).base,
         oi_usd |-> oi_data[symbol],
         funding_rate |-> funding_rates[symbol],
         futures_price |-> tickers[symbol],
         spot_price |-> Get(spot_prices, PairOf(target_pairs, symbol).base)]]

(***************************************************************************)
(* One call of fetch_all_data, from the low-cap set of _scan_cycle to the  *)
(* return: a step for every await, each drawing what the exchange answers. *)
(***************************************************************************)
\* The base assets listed on the connected exchange, in the order of its
\* markets
MarketBases == <<"AAA", "BBB">>

\* What get_low_cap_symbols returns: nothing, listed assets, or an asset
\* that is not listed
LowCapSets ==
    {{}, {"AAA"}, {"AAA", "BBB"}, {"BBB", "ZZZ"}}

\* The pairs _cache_futures_symbols keeps for an exchange with these bases
FuturesPairs(eid, bases) ==
    [i \in 1..Len(bases) |-> Pair(eid, bases[i])]

\* The dicts with keys in K and values in V
Dicts(K, V) ==
    UNION {[D -> V] : D \in SUBSET K}

\* The outcomes of a request: an exception, or one of the payloads
Outcomes(payloads) ==
    {[exc |-> Some(k), raw |-> None] : k \in Exceptions}
        \cup {[exc |-> None, raw |-> r] : r \in payloads}

\* fetch_tickers(): a last price per symbol that is missing, 0, 1.50 or
\* 1.60
TickerOutcomes ==
    Outcomes(Dicts({SwapSymbol(MarketBases[i]) : i \in 1..Len(MarketBases)},
                   {None, Some(0), Some(150), Some(160)}))

\* fetch_funding_rates(): a fundingRate per symbol that is missing or there
BulkFundingOutcomes ==
    Outcomes(Dicts({SwapSymbol(MarketBases[i]) : i \in 1..Len(MarketBases)},
                   {None, Some(-6)}))

\* fetch_funding_rate(symbol) for every symbol
SingleFundingOutcomes ==
    [{SwapSymbol(MarketBases[i]) : i \in 1..Len(MarketBases)} ->
        Outcomes({None, Some(-6)})]

\* fetch_open_interest(symbol) for every symbol: nothing, or an
\* openInterestValue and an openInterestAmount that are missing or there
OiOutcomes ==
    [{SwapSymbol(MarketBases[i]) : i \in 1..Len(MarketBases)} ->
        Outcomes({None} \cup [value : {None, Some(0), Some(30)},
                              amount : {None, Some(2), Some(-2)}])]

\* The spot fetch_tickers(), keyed by base
SpotOutcomes ==
    Outcomes(Dicts({"AAA", "BBB"}, {None, Some(0), Some(149)}))

\* The scanner at rest
ScannerIdle ==
    /\ MAX_MARKET_CAP = 1000
    /\ now = StartTime
    /\ cooldowns = EmptyMap
    /\ signals_generated = 0
    /\ coins_scanned = 0
    /\ coins_passed_filter = 0
    /\ all_data = <<>>
    /\ mcap_lookup = EmptyMap
    /\ stages = <<>>
    /\ signals = <<>>
    /\ cycle = 0
    /\ cycle_scanned = 0
    /\ emitted = EmptyMap
    /\ unpruned = NeverSwept
    /\ phase = "idle"

\* binance is connected with its pairs cached; bybit is not connected
InitFetch ==
    /\ ScannerIdle
    /\ InitCycleVars
    /\ exchanges = {"binance"}
    /\ futures_symbols_cache =
           [eid \in {"binance"} |-> FuturesPairs(eid, MarketBases)]
    /\ call = NoCall
    /\ oi_requested = {}
    /\ fr_requested = {}
    /\ InitTaskVars
    /\ InitProviderVars
    /\ InitInitVars
    /\ InitScanVars
    /\ InitBatchVars
    /\ InitSweepVars
    /\ InitDeliveryVars

\* The frame after a coroutine it awaited yielded r: the exception goes on
\* to the caller, or the value is kept in the field and the call goes on
Awaited(frame, r, field, next_pc) ==
    IF r.exc # None
    THEN [frame EXCEPT !.pc = "raised", !.exc = r.exc]
    ELSE [frame EXCEPT !.pc = next_pc, ![field] = r.ret]

\* History: the frame with the step noted in failed when a request of the
\* step raised
Noted(frame, step, raised) ==
    [frame EXCEPT !.failed = IF raised THEN @ \cup {step} ELSE @]

\* History: the frame with one more fetch_tickers() request counted
TickersCalled(frame) ==
    [frame EXCEPT !.ticker_calls = @ + 1]

\* _scan_cycle, step 2: the cycle is skipped when no low cap is cached
GetLowCapSymbols ==
    /\ call.pc = "idle"
    /\ \E low_cap_set \in LowCapSets :
         call' = [call EXCEPT !.pc = IF low_cap_set = {} THEN "skipped" ELSE "scan",
                              !.target_bases = low_cap_set]
    /\ UNCHANGED <<exchanges, futures_symbols_cache, oi_requested, fr_requested,
                   outsideGateway>>

\* fetch_all_data(eid, target_bases) begins: {} for an exchange that is
\* not connected
FetchAllDataBegin ==
    /\ call.pc = "scan"
    /\ \E eid \in Exchanges :
         call' = IF eid \in exchanges
                 THEN [call EXCEPT !.pc = "tickers", !.eid = eid]
                 ELSE [call EXCEPT !.pc = "returned", !.eid = eid,
                                   !.ret = Some(EmptyMap)]
    /\ UNCHANGED <<exchanges, futures_symbols_cache, oi_requested, fr_requested,
                   outsideGateway>>

\* 1. tickers = await self._fetch_all_tickers(eid)
FetchTickersStep ==
    /\ call.pc = "tickers"
    /\ \E outcome \in TickerOutcomes :
         call' = TickersCalled(
                     Noted(Awaited(call, FetchAllTickers(call.eid \in exchanges, outcome),
                                   "tickers", "funding"),
                           "tickers", outcome.exc # None))
    /\ UNCHANGED <<exchanges, futures_symbols_cache, oi_requested, fr_requested,
                   outsideGateway>>

\* The frame with target_pairs chosen (step 3), when the call goes on
WithTargetPairs(frame) ==
    IF frame.pc = "raised" THEN frame
    ELSE [frame EXCEPT !.target_pairs =
             TargetPairs(GetOr(futures_symbols_cache, frame.eid, <<>>),
                         frame.target_bases)]

\* 2. funding_rates = await self._fetch_all_funding_rates(eid), then step 3
FetchFundingStep ==
    /\ call.pc = "funding"
    /\ \E has_bulk \in BOOLEAN, bulk \in BulkFundingOutcomes,
          has_single \in BOOLEAN, singles \in SingleFundingOutcomes :
         /\ call' = Noted(WithTargetPairs(
                Awaited(call,
                        FetchAllFundingRates(call.eid \in exchanges, has_bulk, bulk,
                            has_single, singles,
                            GetOr(futures_symbols_cache, call.eid, <<>>)),
                        "funding_rates", "oi")),
                "funding",
                /\ has_bulk
                /\ bulk.exc # None
                /\ \A x \in DOMAIN singles : singles[x].exc # None)
         /\ fr_requested' = fr_requested \cup
                FundingRequests(call.eid \in exchanges, has_bulk, bulk, has_single,
                                GetOr(futures_symbols_cache, call.eid, <<>>))
    /\ UNCHANGED <<exchanges, futures_symbols_cache, oi_requested, outsideGateway>>

\* 4. oi_data = await self._fetch_oi_batch(eid, target_pairs)
FetchOiStep ==
    /\ call.pc = "oi"
    /\ \E has_oi \in BOOLEAN, tickers_again \in TickerOutcomes,
          outcomes \in OiOutcomes :
         /\ call' = [TickersCalled(
                         Noted(Awaited(call,
                                       FetchOiBatch(call.eid \in exchanges, has_oi,
                                                    tickers_again, outcomes,
                                                    call.target_pairs),
                                       "oi_data", "spot"),
                               "oi",
                               /\ has_oi
                               /\ tickers_again.exc # None
                               /\ \A x \in DOMAIN outcomes : outcomes[x].exc # None))
                       EXCEPT !.fallback_price =
                           OiFallbackPrices(has_oi,
                               FetchAllTickers(call.eid \in exchanges, tickers_again).ret,
                               outcomes, call.target_pairs)]
         /\ oi_requested' = oi_requested \cup
                OiRequests(call.eid \in exchanges, has_oi, call.target_pairs)
    /\ UNCHANGED <<exchanges, futures_symbols_cache, fr_requested, outsideGateway>>

\* The frame after the spot prices came: the result is assembled and
\* returned
Assembled(frame, r) ==
    IF r.exc # None
    THEN [frame EXCEPT !.pc = "raised", !.exc = r.exc]
    ELSE [frame EXCEPT !.pc = "returned",
                       !.ret = Some(Assemble(frame.eid, frame.target_pairs,
                                             frame.tickers, frame.funding_rates,
                                             frame.oi_data, r.ret))]

\* 5. spot_prices = await self._fetch_spot_prices(...), then step 6 and
\* the return
FetchSpotStep ==
    /\ call.pc = "spot"
    /\ \E outcome \in SpotOutcomes, close_raises \in BOOLEAN :
         call' = Noted(Assembled(call,
                                 FetchSpotPrices(call.eid \in exchanges,
                                                 call.target_bases, outcome,
                                                 close_raises)),
                       "spot", outcome.exc # None \/ close_raises)
    /\ UNCHANGED <<exchanges, futures_symbols_cache, oi_requested, fr_requested,
                   outsideGateway>>

NextFetch ==
    \/ GetLowCapSymbols
    \/ FetchAllDataBegin
    \/ FetchTickersStep
    \/ FetchFundingStep
    \/ FetchOiStep
    \/ FetchSpotStep

SpecFetch == InitFetch /\ [][NextFetch]_vars

\* C13: every record fetch_all_data returns has futures_price > 0,
\* oi_usd > 0 and the funding rate that was retrieved for its symbol; a
\* target symbol whose price, funding rate or open interest did not
\* resolve has no record.
AllThreeResolved ==
    call.pc = "returned" =>
        \A symbol \in Symbols(call.target_pairs) :
            IF symbol \in DOMAIN call.ret[1]
            THEN /\ call.ret[1][symbol].futures_price > 0
                 /\ call.ret[1][symbol].oi_usd > 0
                 /\ symbol \in DOMAIN call.tickers
                 /\ symbol \in DOMAIN call.funding_rates
                 /\ symbol \in DOMAIN call.oi_data
                 /\ call.ret[1][symbol].futures_price = call.tickers[symbol]
                 /\ call.ret[1][symbol].funding_rate = call.funding_rates[symbol]
                 /\ call.ret[1][symbol].oi_usd = call.oi_data[symbol]
            ELSE \/ symbol \notin DOMAIN call.tickers
                 \/ symbol \notin DOMAIN call.funding_rates
                 \/ symbol \notin DOMAIN call.oi_data
                 \/ call.oi_data[symbol] <= 0

\* The call returned a record for one symbol and none for another whose
\* price and open interest resolved but whose funding rate did not
RecordDroppedForFunding ==
    /\ call.pc = "returned"
    /\ SwapSymbol("AAA") \in DOMAIN call.ret[1]
    /\ SwapSymbol("BBB") \in Symbols(call.target_pairs)
    /\ SwapSymbol("BBB") \notin DOMAIN call.ret[1]
    /\ SwapSymbol("BBB") \in DOMAIN call.tickers
    /\ SwapSymbol("BBB") \in DOMAIN call.oi_data
    /\ call.oi_data[SwapSymbol("BBB")] > 0
    /\ SwapSymbol("BBB") \notin DOMAIN call.funding_rates

\* C14: fetch_all_data never raises to its caller: whatever the ticker,
\* funding, open-interest and spot requests raise, the call goes on to
\* return a map of records of its target pairs, which is empty when the
\* exchange is not connected and when every request failed.
FetchAllDataNeverRaises ==
    /\ call.pc # "raised"
    /\ call.exc = None
    /\ call.pc = "returned" =>
           /\ call.ret # None
           /\ DOMAIN call.ret[1] \subseteq Symbols(call.target_pairs)
           /\ call.eid \notin exchanges => call.ret[1] = EmptyMap
           /\ call.failed = {"tickers", "funding", "oi", "spot"} =>
                  call.ret[1] = EmptyMap

\* The call on the connected exchange returned the empty map after the
\* requests of all four steps raised
ReturnedAfterTotalFailure ==
    /\ call.pc = "returned"
    /\ call.eid \in exchanges
    /\ call.failed = {"tickers", "funding", "oi", "spot"}
    /\ call.ret = Some(EmptyMap)

MaxPairs == 6

\* The numbers of pairs of the connected exchanges: one exchange with more
\* pairs than the fallback takes, or two exchanges with more pairs than the
\* semaphore admits
MarketSizes ==
    {[eid \in {"binance"} |-> FundingFallbackLimit + 1],
     [eid \in Exchanges |-> MaxPairs]}

\* _futures_symbols_cache[eid] of an exchange with n pairs
NumberedPairs(eid, n) ==
    [i \in 1..n |-> [symbol |-> i, base |-> i, exchange |-> eid]]

\* The symbols of the pairs, in order
SymbolList(pairs) ==
    [i \in 1..Len(pairs) |-> pairs[i].symbol]

\* No task is gathered yet
NoTasks ==
    [stage |-> "start", kind |-> "none", list |-> <<>>, started |-> 0,
     inflight |-> 0, sleeping |-> 0, bulk |-> "none", has_single |-> FALSE,
     has_request |-> FALSE]

\* The tasks of a gather, none of which has entered the semaphore
Gathered(stage, kind, list, bulk, has_single, has_request) ==
    [stage |-> stage, kind |-> kind, list |-> list, started |-> 0,
     inflight |-> 0, sleeping |-> 0, bulk |-> bulk, has_single |-> has_single,
     has_request |-> has_request]

\* Every task of the gather has returned
AllDone(t) ==
    /\ t.started = Len(t.list)
    /\ t.inflight = 0
    /\ t.sleeping = 0

\* A semaphore that lets a task in whatever its value
CanEnterAlways(value) ==
    TRUE

\* asyncio.Semaphore: a task enters when a permit is free
CanEnter(value) ==
    value > 0

InitTasks ==
    /\ ScannerIdle
    /\ InitCycleVars
    /\ \E sizes \in MarketSizes :
         /\ exchanges = DOMAIN sizes
         /\ futures_symbols_cache =
                [eid \in DOMAIN sizes |-> NumberedPairs(eid, sizes[eid])]
         /\ semaphores = [eid \in DOMAIN sizes |-> OI_CONCURRENCY]
         /\ tasks = [eid \in DOMAIN sizes |-> NoTasks]
         /\ requests = [eid \in DOMAIN sizes |-> {}]
    /\ call = NoCall
    /\ oi_requested = {}
    /\ fr_requested = {}
    /\ InitProviderVars
    /\ InitInitVars
    /\ InitScanVars
    /\ InitBatchVars
    /\ InitSweepVars
    /\ InitDeliveryVars

\* _fetch_all_funding_rates(eid): the bulk request answers, or the exchange
\* has none ("no_attr") or it raises ("raised") and the tasks of the
\* fallback are gathered, when the exchange has fetch_funding_rate
FundingRatesBegin ==
    /\ \E eid \in exchanges :
         /\ tasks[eid].stage = "start"
         /\ \E bulk \in {"ok", "no_attr", "raised"}, has_single \in BOOLEAN :
              tasks' = [tasks EXCEPT ![eid] =
                  Gathered("funding", "funding",
                           IF bulk # "ok" /\ has_single
                           THEN SymbolList(FallbackPairs(futures_symbols_cache[eid]))
                           ELSE <<>>,
                           bulk, has_single, TRUE)]
    /\ UNCHANGED <<semaphores, requests, outsideTasks>>

\* _fetch_oi_batch(eid, target_pairs), once the funding rates are there:
\* the tasks of the target pairs are gathered; the target bases are all
\* the bases listed or the first of them, with one that is not listed.
\* What the funding stage recorded of the bulk request is given up.
OiBatchBegin ==
    /\ \E eid \in exchanges :
         /\ tasks[eid].stage = "funding"
         /\ AllDone(tasks[eid])
         /\ \E target_bases \in {{0} \cup (1..Len(futures_symbols_cache[eid])), {0, 1}},
               has_oi \in BOOLEAN :
              tasks' = [tasks EXCEPT ![eid] =
                  Gathered("oi", "oi",
                           SymbolList(TargetPairs(futures_symbols_cache[eid],
                                                  target_bases)),
                           "none", FALSE, has_oi)]
    /\ UNCHANGED <<semaphores, requests, outsideTasks>>

\* async with sem, then the request: the next task takes a permit and
\* awaits the answer of the exchange
EnterAndRequest ==
    /\ \E eid \in exchanges :
         /\ tasks[eid].started < Len(tasks[eid].list)
         /\ tasks[eid].has_request
         /\ CanEnter(semaphores[eid])
         /\ semaphores' = [semaphores EXCEPT ![eid] = @ - 1]
         /\ tasks' = [tasks EXCEPT ![eid].started = @ + 1, ![eid].inflight = @ + 1]
         /\ requests' = [requests EXCEPT ![eid] =
                @ \cup {<<tasks[eid].kind, tasks[eid].list[tasks[eid].started + 1]>>}]
    /\ UNCHANGED outsideTasks

\* A task of _fetch_oi_batch on an exchange without fetch_open_interest:
\* it enters the semaphore and leaves it without a request
EnterWithoutRequest ==
    /\ \E eid \in exchanges :
         /\ tasks[eid].started < Len(tasks[eid].list)
         /\ ~tasks[eid].has_request
         /\ CanEnter(semaphores[eid])
         /\ tasks' = [tasks EXCEPT ![eid].started = @ + 1]
    /\ UNCHANGED <<semaphores, requests, outsideTasks>>

\* The exchange answers a request or the request raises: the task leaves
\* the semaphore, except after a RateLimitExceeded of fetch_open_interest,
\* where it sleeps first
Answered ==
    /\ \E eid \in exchanges :
         /\ tasks[eid].inflight > 0
         /\ \E rate_limited \in BOOLEAN :
              IF rate_limited /\ tasks[eid].kind = "oi"
              THEN /\ tasks' = [tasks EXCEPT ![eid].inflight = @ - 1,
                                             ![eid].sleeping = @ + 1]
                   /\ UNCHANGED semaphores
              ELSE /\ tasks' = [tasks EXCEPT ![eid].inflight = @ - 1]
                   /\ semaphores' = [semaphores EXCEPT ![eid] = @ + 1]
    /\ UNCHANGED <<requests, outsideTasks>>

\* asyncio.sleep(2) is over: the task leaves the semaphore
SleepOver ==
    /\ \E eid \in exchanges :
         /\ tasks[eid].sleeping > 0
         /\ tasks' = [tasks EXCEPT ![eid].sleeping = @ - 1]
         /\ semaphores' = [semaphores EXCEPT ![eid] = @ + 1]
    /\ UNCHANGED <<requests, outsideTasks>>

\* The gather of _fetch_oi_batch returns
OiBatchEnd ==
    /\ \E eid \in exchanges :
         /\ tasks[eid].stage = "oi"
         /\ AllDone(tasks[eid])
         /\ tasks' = [tasks EXCEPT ![eid].stage = "end"]
    /\ UNCHANGED <<semaphores, requests, outsideTasks>>

NextTasks ==
    \/ FundingRatesBegin
    \/ OiBatchBegin
    \/ EnterAndRequest
    \/ EnterWithoutRequest
    \/ Answered
    \/ SleepOver
    \/ OiBatchEnd

SpecTasks == InitTasks /\ [][NextTasks]_vars

\* The symbols of the exchange that got a request of the kind
Requested(eid, kind) ==
    {r[2] : r \in {x \in requests[eid] : x[1] = kind}}

\* The first n symbols of the exchange
FirstSymbols(eid, n) ==
    {futures_symbols_cache[eid][i].symbol : i \in 1..n}

\* C16, as stated: whenever the bulk funding-rate call is unsupported,
\* exactly the first min(100, |pairs|) symbols are attempted individually,
\* each request made while its task holds a permit of the semaphore.
FallbackAttemptsFirstHundred ==
    \A eid \in exchanges :
        /\ (tasks[eid].stage = "funding" /\ tasks[eid].bulk # "ok"
                /\ AllDone(tasks[eid])) =>
               Requested(eid, "funding") =
                   FirstSymbols(eid, Min(100, Len(futures_symbols_cache[eid])))
        /\ tasks[eid].inflight + tasks[eid].sleeping =
               OI_CONCURRENCY - semaphores[eid]

\* C16: when the bulk funding-rate call is unsupported and the exchange
\* has a per-symbol funding-rate call, exactly the first min(100, |pairs|)
\* symbols are attempted individually, and none when it has no per-symbol
\* call; when the bulk call answers, none is attempted; every request is
\* made while its task holds a permit of the exchange's semaphore.
FallbackAttemptsWhenAvailable ==
    \A eid \in exchanges :
        /\ (tasks[eid].stage = "funding" /\ AllDone(tasks[eid])) =>
               Requested(eid, "funding") =
                   IF tasks[eid].bulk # "ok" /\ tasks[eid].has_single
                   THEN FirstSymbols(eid, Min(100, Len(futures_symbols_cache[eid])))
                   ELSE {}
        /\ Requested(eid, "funding") \subseteq
               FirstSymbols(eid, Min(100, Len(futures_symbols_cache[eid])))
        /\ tasks[eid].inflight + tasks[eid].sleeping =
               OI_CONCURRENCY - semaphores[eid]
        /\ semaphores[eid] >= 0

\* The fallback of an exchange with more than 100 pairs is over: 100
\* symbols were attempted and the next one was not
FallbackStoppedAtLimit ==
    \E eid \in exchanges :
        /\ Len(futures_symbols_cache[eid]) > 100
        /\ tasks[eid].stage = "funding"
        /\ tasks[eid].bulk = "raised"
        /\ AllDone(tasks[eid])
        /\ Cardinality(Requested(eid, "funding")) = 100
        /\ futures_symbols_cache[eid][101].symbol \notin Requested(eid, "funding")

\* C25: the open-interest sub-calls are the only calls gated by the
\* semaphore of the exchange: whenever a permit is taken, the tasks that
\* run on the exchange are those of _fetch_oi_batch.  (That the four
\* fetches of one call overlap is a statement about what can happen; in
\* fetch_all_data each is awaited before the next begins.)
OnlyOiGatedBySemaphore ==
    \A eid \in exchanges :
        semaphores[eid] < OI_CONCURRENCY => tasks[eid].kind = "oi"

\* C17: at every moment the number of per-symbol requests in flight to one
\* exchange, open-interest and funding fallback requests alike, is at most
\* OI_CONCURRENCY; each exchange is counted on its own semaphore.
InFlightBoundedPerExchange ==
    \A eid \in exchanges :
        /\ tasks[eid].inflight <= OI_CONCURRENCY
        /\ tasks[eid].inflight <= OI_CONCURRENCY - semaphores[eid]
        /\ semaphores[eid] \in 0..OI_CONCURRENCY

\* Both exchanges have OI_CONCURRENCY requests in flight at once, one its
\* funding fallback and the other its open-interest batch, and on both a
\* task waits for a permit
BothExchangesSaturated ==
    /\ exchanges = Exchanges
    /\ \A eid \in Exchanges :
           /\ tasks[eid].inflight = OI_CONCURRENCY
           /\ semaphores[eid] = 0
           /\ tasks[eid].started < Len(tasks[eid].list)
    /\ tasks["binance"].kind = "funding"
    /\ tasks["bybit"].kind = "oi"

(***************************************************************************)
(* src/marketcap.py: MarketCapProvider.refresh_cache under concurrent      *)
(* callers.  In this specification the clock counts in units of cache_ttl  *)
(* (300 s by default).                                                     *)
(***************************************************************************)
\* config.MCAP_CACHE_TTL
MCAP_CACHE_TTL == 1

\* range(1, 8): the last page a refresh asks for
LastPage == 7

\* The coroutines that call refresh_cache at the same time
Callers == {"first", "second"}

\* One coin of a page of /coins/markets
Coin(symbol, market_cap) ==
    [symbol |-> symbol, market_cap |-> market_cap]

\* What _fetch_page answers: HTTP 429, another error, an empty page, or a
\* page of coins, one of them without a usable market_cap
PageOutcomes ==
    {[exc |-> Some("429"), raw |-> None], [exc |-> Some("error"), raw |-> None]}
        \cup {[exc |-> None, raw |-> data] :
                data \in {<<>>,
                          <<Coin("aaa", Some(40))>>,
                          <<Coin("ccc", Some(50))>>,
                          <<Coin("aaa", Some(10)), Coin("bbb", Some(0)),
                            Coin("bbb", None)>>}}

\* A staleness test that never finds the cache fresh
IsStaleAlways(snapshot, snapshot_time, t) ==
    TRUE

\* is_stale at time t
IsStale(snapshot, snapshot_time, t) ==
    snapshot = EmptyMap \/ (t - snapshot_time) >= MCAP_CACHE_TTL

\* The body of the loop over the coins of a page: the larger
\* capitalization is kept for a symbol that comes twice
RECURSIVE MergePage(_, _)
MergePage(all_coins, data) ==
    IF data = <<>> THEN all_coins
    ELSE IF /\ Upper(Head(data).symbol) # ""
            /\ Head(data).market_cap # None
            /\ Head(data).market_cap[1] > 0
            /\ Head(data).market_cap[1] > GetOr(all_coins, Upper(Head(data).symbol), 0)
    THEN MergePage((Upper(Head(data).symbol) :> Head(data).market_cap[1]) @@ all_coins,
                   Tail(data))
    ELSE MergePage(all_coins, Tail(data))

\* A commit that writes what was retrieved into the snapshot in place
CommitMerging(snapshot, snapshot_time, all_coins, t) ==
    IF all_coins # EmptyMap
    THEN [cache |-> all_coins @@ snapshot, cache_time |-> t]
    ELSE [cache |-> snapshot, cache_time |-> snapshot_time]

\* A commit that replaces the snapshot whatever was retrieved
CommitAlways(snapshot, snapshot_time, all_coins, t) ==
    [cache |-> all_coins, cache_time |-> t]

\* The end of refresh_cache: the snapshot and its time after a refresh that
\* retrieved all_coins and ends at time t
Commit(snapshot, snapshot_time, all_coins, t) ==
    IF all_coins # EmptyMap
    THEN [cache |-> all_coins, cache_time |-> t]
    ELSE [cache |-> snapshot, cache_time |-> snapshot_time]

\* The frame of a caller that has not called
NoRefresh ==
    [pc |-> "idle", page |-> 0, all_coins |-> EmptyMap, page_requests |-> 0,
     stopped |-> "none", queued_behind |-> FALSE]

InitRefresh ==
    /\ ScannerIdle
    /\ InitCycleVars
    /\ InitGatewayVars
    /\ InitTaskVars
    /\ InitInitVars
    /\ InitScanVars
    /\ InitBatchVars
    /\ InitSweepVars
    /\ InitDeliveryVars
    /\ cache = EmptyMap
    /\ cache_time = 0
    /\ loading = FALSE
    /\ lock_holder = None
    /\ lock_waiters = <<>>
    /\ callers = [c \in Callers |-> NoRefresh]

\* What the steps of the provider leave alone
outsideProvider ==
    <<scannerVars, cycleVars, gatewayVars, taskVars, initVars, scanVars, batchVars, sweepVars, deliveryVars>>

\* A caller calls refresh_cache and queues for the lock; queued_behind
\* notes that a refresh was in progress then
RefreshCacheCall ==
    /\ \E c \in Callers :
         /\ callers[c].pc = "idle"
         /\ callers' = [callers EXCEPT ![c].pc = "waiting",
                                       ![c].queued_behind = (lock_holder # None)]
         /\ lock_waiters' = Append(lock_waiters, c)
    /\ UNCHANGED <<cache, cache_time, loading, lock_holder, outsideProvider>>

\* async with self._lock, then the test of is_stale: the first waiter gets
\* the free lock and returns at once when the cache is fresh, or begins
\* the refresh
AcquireLock ==
    /\ lock_holder = None
    /\ lock_waiters # <<>>
    /\ lock_waiters' = Tail(lock_waiters)
    /\ IF IsStale(cache, cache_time, now)
       THEN /\ lock_holder' = Some(Head(lock_waiters))
            /\ loading' = TRUE
            /\ callers' = [callers EXCEPT ![Head(lock_waiters)].pc = "page",
                                          ![Head(lock_waiters)].page = 1]
       ELSE /\ callers' = [callers EXCEPT ![Head(lock_waiters)].pc = "done"]
            /\ UNCHANGED <<lock_holder, loading>>
    /\ UNCHANGED <<cache, cache_time, outsideProvider>>

\* The session cannot be opened: the outer except, nothing is retrieved
SessionFails ==
    /\ \E c \in Callers :
         /\ callers[c].pc = "page"
         /\ callers[c].page_requests = 0
         /\ callers' = [callers EXCEPT ![c].pc = "commit", ![c].stopped = "session"]
    /\ UNCHANGED <<cache, cache_time, loading, lock_holder, lock_waiters,
                   outsideProvider>>

\* The frame after _fetch_page answered: the loop stops on an error, on an
\* empty page and after the last page
PageFetched(frame, outcome) ==
    IF outcome.exc # None
    THEN [frame EXCEPT !.pc = "commit", !.stopped = outcome.exc[1],
                       !.page_requests = @ + 1]
    ELSE IF outcome.raw = <<>>
    THEN [frame EXCEPT !.pc = "commit", !.stopped = "empty",
                       !.page_requests = @ + 1]
    ELSE [frame EXCEPT !.pc = IF frame.page = LastPage THEN "commit" ELSE "page",
                       !.stopped = IF frame.page = LastPage THEN "pages" ELSE "none",
                       !.page = IF frame.page = LastPage THEN @ ELSE @ + 1,
                       !.all_coins = MergePage(@, outcome.raw),
                       !.page_requests = @ + 1]

\* One pass of the loop over the pages
FetchPage ==
    /\ \E c \in Callers :
         /\ callers[c].pc = "page"
         /\ \E outcome \in PageOutcomes :
              callers' = [callers EXCEPT ![c] = PageFetched(@, outcome)]
    /\ UNCHANGED <<cache, cache_time, loading, lock_holder, lock_waiters,
                   outsideProvider>>

\* The end of refresh_cache: the commit, and the lock is released
RefreshEnd ==
    /\ \E c \in Callers :
         /\ callers[c].pc = "commit"
         /\ cache' = Commit(cache, cache_time, callers[c].all_coins, now).cache
         /\ cache_time' = Commit(cache, cache_time, callers[c].all_coins, now).cache_time
         /\ callers' = [callers EXCEPT ![c].pc = "done"]
    /\ loading' = FALSE
    /\ lock_holder' = None
    /\ UNCHANGED <<lock_waiters, outsideProvider>>

NextRefresh ==
    \/ RefreshCacheCall
    \/ AcquireLock
    \/ SessionFails
    \/ FetchPage
    \/ RefreshEnd
    \/ Tick

SpecRefresh == InitRefresh /\ [][NextRefresh]_vars

\* The callers inside the refresh body
InBody ==
    {c \in Callers : callers[c].pc \in {"page", "commit"}}

\* C18: refresh_cache is single-flight.  With any number of concurrent
\* callers at most one refresh body runs at a time, the lock holder's; and
\* a caller that gets the lock while the snapshot another refresh
\* committed is fresh returns without a page request, leaving the snapshot
\* and the lock as they are.
RefreshIsSingleFlight ==
    [][/\ Cardinality(InBody') <= 1
       /\ \A c \in InBody' : lock_holder' = Some(c)
       /\ \A c \in Callers :
              (/\ callers[c].pc = "waiting"
               /\ callers'[c].pc # "waiting"
               /\ cache # EmptyMap
               /\ now - cache_time < MCAP_CACHE_TTL) =>
                  /\ callers'[c].pc = "done"
                  /\ callers'[c].page_requests = 0
                  /\ cache' = cache
                  /\ cache_time' = cache_time
                  /\ lock_holder' = None
       /\ \A c \in Callers :
              callers[c].pc = "done" => callers'[c] = callers[c]]_vars

\* A caller that queued while a refresh was in progress returned without a
\* page request after that refresh committed two pages
WaiterSkippedRefresh ==
    \E c \in Callers : \E d \in Callers \ {c} :
        /\ callers[c].pc = "done"
        /\ callers[c].queued_behind
        /\ callers[c].page_requests = 0
        /\ callers[d].pc = "done"
        /\ callers[d].page_requests >= 2
        /\ cache = callers[d].all_coins
        /\ cache # EmptyMap

\* C19, as an action: the end of a refresh that retrieved at least one
\* entry before it stopped (on an empty page, HTTP 429, another error or
\* the last page) commits what it retrieved and sets the last-refreshed
\* time to now; the end of a refresh that retrieved none leaves the
\* snapshot and the last-refreshed time as they were; no other step
\* touches either.
PartialCommittedEmptyIgnored ==
    [][/\ \A c \in Callers :
              (callers[c].pc = "commit" /\ callers'[c].pc = "done") =>
                  IF callers[c].all_coins # EmptyMap
                  THEN /\ cache' = callers[c].all_coins
                       /\ cache_time' = now
                  ELSE /\ cache' = cache
                       /\ cache_time' = cache_time
       /\ (\A c \in Callers : ~(callers[c].pc = "commit" /\ callers'[c].pc = "done")) =>
              /\ cache' = cache
              /\ cache_time' = cache_time]_vars

\* A refresh stopped by HTTP 429 after one page committed that page, and a
\* later refresh that retrieved nothing left the snapshot and its time
PartialKeptAfterEmptyRefresh ==
    \E c \in Callers : \E d \in Callers \ {c} :
        /\ callers[c].pc = "done"
        /\ callers[c].stopped = "429"
        /\ callers[c].page_requests = 2
        /\ callers[c].all_coins # EmptyMap
        /\ callers[d].pc = "done"
        /\ callers[d].page_requests >= 1
        /\ callers[d].all_coins = EmptyMap
        /\ cache = callers[c].all_coins
        /\ cache_time < now

\* C29: at every moment the capitalization map a reader finds is a whole
\* snapshot: the empty map of the constructor or all that one finished
\* refresh retrieved.  While a refresh adds the coins of its pages to what
\* it retrieved, the map stays as it is; it changes only at the end of a
\* refresh, in one step, to all that this refresh retrieved.
ReadersSeeWholeSnapshots ==
    /\ [](\/ cache = EmptyMap
          \/ \E c \in Callers :
                 callers[c].pc = "done" /\ cache = callers[c].all_coins)
    /\ [][/\ (\E c \in Callers : callers'[c].all_coins # callers[c].all_coins)
                 => cache' = cache
          /\ cache' # cache =>
                 \E c \in Callers :
                     /\ callers[c].pc = "commit"
                     /\ callers'[c].pc = "done"
                     /\ cache' = callers[c].all_coins]_vars

\* A refresh is suspended between two pages, having retrieved coins the
\* previous snapshot does not hold, and the map is still the previous
\* snapshot
OldSnapshotDuringRefresh ==
    \E c \in Callers : \E d \in Callers \ {c} :
        /\ callers[c].pc = "page"
        /\ callers[c].page_requests >= 1
        /\ DOMAIN callers[c].all_coins \ DOMAIN cache # {}
        /\ callers[d].pc = "done"
        /\ cache = callers[d].all_coins
        /\ cache # EmptyMap

\* C26: within one fetch_all_data call the bulk futures-ticker request is
\* issued once, and the price the amount * price fallback multiplied by
\* for a symbol is the futures_price of the symbol's record.
TickersFetchedOnceAndReused ==
    (call.pc = "returned" /\ call.eid \in exchanges) =>
        /\ call.ticker_calls = 1
        /\ \A symbol \in DOMAIN call.ret[1] \cap DOMAIN call.fallback_price :
               call.fallback_price[symbol] = call.ret[1][symbol].futures_price

(***************************************************************************)
(* ExchangeManager.initialize: one _init_exchange task per configured      *)
(* exchange id, gathered.                                                  *)
(***************************************************************************)
\* config.EXCHANGES of the model: two exchanges of ccxt and two ids ccxt
\* does not know
ExchangeIds == {"binance", "bybit", "nosuch", "typo"}

\* getattr(ccxt, eid, None) finds a class
InCcxt(eid) == eid \in Exchanges

\* A handler that lets the exception leave _init_exchange
InitErrorReraised(errors, eid, message) ==
    [init_errors |-> errors, exc |-> Some(message)]

\* except Exception as e: self._init_errors[eid] = str(e)[:80]
InitErrorCaught(errors, eid, message) ==
    [init_errors |-> (eid :> message) @@ errors, exc |-> None]

\* The frame of an _init_exchange task that has not run
NoInit ==
    [pc |-> "start", outcome |-> "none", exc |-> None]

InitInitialize ==
    /\ ScannerIdle
    /\ InitCycleVars
    /\ InitGatewayVars
    /\ InitTaskVars
    /\ InitProviderVars
    /\ InitInitVars
    /\ InitScanVars
    /\ InitBatchVars
    /\ InitSweepVars
    /\ InitDeliveryVars

\* What the steps of initialize() leave alone
outsideInit ==
    <<scannerVars, cycleVars, call, oi_requested, fr_requested, tasks, requests,
      providerVars, scanVars, batchVars, sweepVars, deliveryVars>>

\* initialize(): the tasks are made and gathered
InitializeCall ==
    /\ initialized = "no"
    /\ initialized' = "running"
    /\ init_tasks' = [eid \in ExchangeIds |-> NoInit]
    /\ UNCHANGED <<init_errors, exchanges, futures_symbols_cache, semaphores,
                   outsideInit>>

\* The task after its handler ran
Handled(frame, outcome, handled) ==
    [frame EXCEPT !.pc = "done", !.outcome = outcome, !.exc = handled.exc]

\* _init_exchange(eid) up to load_markets: an id that is not in ccxt is
\* noted and the task returns; the constructor raises or the task awaits
\* load_markets
InitExchangeBegin ==
    /\ \E eid \in DOMAIN init_tasks :
         /\ init_tasks[eid].pc = "start"
         /\ IF ~InCcxt(eid)
            THEN /\ init_errors' = (eid :> "not in ccxt") @@ init_errors
                 /\ init_tasks' = [init_tasks EXCEPT ![eid].pc = "done",
                                                     ![eid].outcome = "not in ccxt"]
            ELSE \E raises \in BOOLEAN :
                   IF raises
                   THEN /\ init_errors' =
                               InitErrorCaught(init_errors, eid, "constructor").init_errors
                        /\ init_tasks' = [init_tasks EXCEPT ![eid] =
                               Handled(@, "constructor",
                                       InitErrorCaught(init_errors, eid, "constructor"))]
                   ELSE /\ init_tasks' = [init_tasks EXCEPT ![eid].pc = "loading"]
                        /\ UNCHANGED init_errors
    /\ UNCHANGED <<initialized, exchanges, futures_symbols_cache, semaphores,
                   outsideInit>>

\* load_markets() raises: the exchange is not connected and the error is
\* noted
LoadMarketsFails ==
    /\ \E eid \in DOMAIN init_tasks :
         /\ init_tasks[eid].pc = "loading"
         /\ init_errors' = InitErrorCaught(init_errors, eid, "load_markets").init_errors
         /\ init_tasks' = [init_tasks EXCEPT ![eid] =
                Handled(@, "load_markets",
                        InitErrorCaught(init_errors, eid, "load_markets"))]
    /\ UNCHANGED <<initialized, exchanges, futures_symbols_cache, semaphores,
                   outsideInit>>

\* load_markets() returns: the exchange is connected, its semaphore is
\* made and its pairs are cached; an error while caching is noted
LoadMarketsReturns ==
    /\ \E eid \in DOMAIN init_tasks :
         /\ init_tasks[eid].pc = "loading"
         /\ exchanges' = exchanges \cup {eid}
         /\ semaphores' = (eid :> OI_CONCURRENCY) @@ semaphores
         /\ \E cached \in BOOLEAN :
              IF cached
              THEN /\ futures_symbols_cache' =
                          (eid :> FuturesPairs(eid, MarketBases)) @@ futures_symbols_cache
                   /\ init_tasks' = [init_tasks EXCEPT ![eid].pc = "done",
                                                       ![eid].outcome = "ok"]
                   /\ UNCHANGED init_errors
              ELSE /\ init_errors' =
                          InitErrorCaught(init_errors, eid, "cache").init_errors
                   /\ init_tasks' = [init_tasks EXCEPT ![eid] =
                          Handled(@, "cache", InitErrorCaught(init_errors, eid, "cache"))]
                   /\ UNCHANGED futures_symbols_cache
    /\ UNCHANGED <<initialized, outsideInit>>

\* The gather returns, with return_exceptions=True
InitializeReturn ==
    /\ initialized = "running"
    /\ \A eid \in DOMAIN init_tasks : init_tasks[eid].pc = "done"
    /\ initialized' = "returned"
    /\ UNCHANGED <<init_errors, init_tasks, exchanges, futures_symbols_cache,
                   semaphores, outsideInit>>

NextInitialize ==
    \/ InitializeCall
    \/ InitExchangeBegin
    \/ LoadMarketsFails
    \/ LoadMarketsReturns
    \/ InitializeReturn

SpecInitialize == InitInitialize /\ [][NextInitialize]_vars

\* C33: after initialize() has returned, every configured exchange id is
\* either connected (in exchanges) or failed (in _init_errors), and none is
\* both.
ConnectedOrFailedNotBoth ==
    initialized = "returned" =>
        /\ exchanges \cup DOMAIN init_errors = ExchangeIds
        /\ exchanges \cap DOMAIN init_errors = {}

\* C20: a failure to initialize one exchange (an id ccxt does not know, an
\* error while connecting or loading markets) is noted in _init_errors
\* under its id and raises neither out of its task nor out of
\* initialize(); whether an exchange is connected depends on what happened
\* to that exchange alone.
InitFailuresAreIsolated ==
    /\ initialized \in {"no", "running", "returned"}
    /\ exchanges \subseteq DOMAIN init_tasks
    /\ DOMAIN init_errors \subseteq DOMAIN init_tasks
    /\ \A eid \in DOMAIN init_tasks :
           /\ init_tasks[eid].exc = None
           /\ init_tasks[eid].pc # "done" => eid \notin DOMAIN init_errors
           /\ init_tasks[eid].pc = "done" =>
                  /\ eid \in exchanges <=> init_tasks[eid].outcome \in {"ok", "cache"}
                  /\ eid \in DOMAIN init_errors <=> init_tasks[eid].outcome # "ok"
                  /\ eid \in DOMAIN init_errors =>
                         init_errors[eid] = init_tasks[eid].outcome
                  /\ eid \in exchanges => semaphores[eid] = OI_CONCURRENCY

\* initialize() returned with one exchange connected while another failed
\* to load its markets and the others are not in ccxt
OneConnectedOthersFailed ==
    /\ initialized = "returned"
    /\ exchanges = {"bybit"}
    /\ init_errors = [eid \in ExchangeIds \ {"bybit"} |->
                         IF eid = "binance" THEN "load_markets" ELSE "not in ccxt"]
    /\ DOMAIN futures_symbols_cache = {"bybit"}

(***************************************************************************)
(* src/marketcap.py: MarketCapProvider.get_low_cap_symbols as _scan_cycle  *)
(* calls it, on a snapshot in units of 100 000 USD.                        *)
(***************************************************************************)
\* get_low_cap_symbols(max_cap)
LowCapSymbols(snapshot, max_cap) ==
    {sym \in DOMAIN snapshot : snapshot[sym] <= max_cap}

\* The snapshots of the model: capitalizations below MIN_MARKET_CAP, at it,
\* at the upper bound of MaxMarketCapValues and above it
Snapshots ==
    UNION {[syms -> {10, MIN_MARKET_CAP, 1000, 2000}] :
             syms \in SUBSET {"AAA", "BBB", "CCC"}}

InitEligible ==
    /\ MAX_MARKET_CAP \in MaxMarketCapValues
    /\ now = StartTime
    /\ cooldowns = EmptyMap
    /\ signals_generated = 0
    /\ coins_scanned = 0
    /\ coins_passed_filter = 0
    /\ all_data = <<>>
    /\ mcap_lookup = EmptyMap
    /\ stages = <<>>
    /\ signals = <<>>
    /\ cycle = 0
    /\ cycle_scanned = 0
    /\ emitted = EmptyMap
    /\ unpruned = NeverSwept
    /\ phase = "idle"
    /\ InitCycleVars
    /\ InitGatewayVars
    /\ InitTaskVars
    /\ InitInitVars
    /\ InitScanVars
    /\ InitBatchVars
    /\ InitSweepVars
    /\ InitDeliveryVars
    /\ cache \in Snapshots
    /\ cache_time = StartTime
    /\ loading = FALSE
    /\ lock_holder = None
    /\ lock_waiters = <<>>
    /\ callers = EmptyMap

\* _scan_cycle, step 2, on the cached snapshot: low_cap_set is what
\* scan_one hands to fetch_all_data, and the cycle is skipped when it is
\* empty
LowCapSetRead ==
    /\ call.pc = "idle"
    /\ call' = [call EXCEPT
                  !.pc = IF LowCapSymbols(cache, MAX_MARKET_CAP) = {}
                         THEN "skipped" ELSE "scan",
                  !.target_bases = LowCapSymbols(cache, MAX_MARKET_CAP)]
    /\ UNCHANGED <<exchanges, futures_symbols_cache, oi_requested, fr_requested,
                   outsideGateway>>

NextEligible ==
    LowCapSetRead

SpecEligible == InitEligible /\ [][NextEligible]_vars

\* C21: the set handed to the gateway holds exactly the cached bases whose
\* capitalization is at or above MIN_MARKET_CAP and, when MAX_MARKET_CAP is
\* set (not 0), at or below it.
EligibleWithinBothBounds ==
    call.pc \in {"skipped", "scan"} =>
        call.target_bases =
            {sym \in DOMAIN cache :
                 /\ cache[sym] >= MIN_MARKET_CAP
                 /\ MAX_MARKET_CAP # 0 => cache[sym] <= MAX_MARKET_CAP}

(***************************************************************************)
(* src/main.py: the scan_one tasks of one cycle, gathered.  Each task      *)
(* awaits fetch_all_data, which raises, returns nothing or returns         *)
(* records; evaluate_batch then runs without a suspension point, so a      *)
(* task's evaluation is one step.                                          *)
(***************************************************************************)
\* The frame of a scan_one task that awaits fetch_all_data
Scanning ==
    [pc |-> "fetching", outcome |-> "none", exc |-> None]

\* The frame of a scan_one task that returned a list
Scanned(outcome) ==
    [pc |-> "done", outcome |-> outcome, exc |-> None]

\* The records an exchange can deliver to a gathered scan: those of
\* CycleData and a second linear USDT swap of AAA, quoted in USD
GatherData(eid) ==
    CycleData(eid) \cup
        {[CoinData(eid, "AAA", 300, -600, 101, None) EXCEPT !.symbol = "AAA/USD:USDT"]}

InitGather ==
    InitCycle

\* asyncio.gather(*[scan_one(eid) for eid in exchanges]): every task runs
\* to its first await
GatherScans ==
    /\ scans = EmptyMap
    /\ scans' = [eid \in Exchanges |-> Scanning]
    /\ UNCHANGED <<scannerVars, cycleVars, gatewayVars, taskVars, providerVars,
                   initVars, batchVars, sweepVars, deliveryVars>>

\* fetch_all_data raised in scan_one(eid): except Exception returns []
ScanOneFails ==
    /\ \E eid \in DOMAIN scans :
         /\ scans[eid].pc = "fetching"
         /\ scans' = [scans EXCEPT ![eid] = Scanned("raised")]
         /\ results' = (eid :> <<>>) @@ results
    /\ UNCHANGED <<scannerVars, sending, delivered, gatewayVars, taskVars,
                   providerVars, initVars, batchVars, sweepVars, deliveryVars>>

\* fetch_all_data returned nothing in scan_one(eid): [] without a call of
\* evaluate_batch
ScanOneEmpty ==
    /\ \E eid \in DOMAIN scans :
         /\ scans[eid].pc = "fetching"
         /\ scans' = [scans EXCEPT ![eid] = Scanned("empty")]
         /\ results' = (eid :> <<>>) @@ results
    /\ UNCHANGED <<scannerVars, sending, delivered, gatewayVars, taskVars,
                   providerVars, initVars, batchVars, sweepVars, deliveryVars>>

\* fetch_all_data returned records in scan_one(eid): evaluate_batch runs to
\* its end and the task returns its signals
ScanOneEvaluates ==
    /\ \E eid \in DOMAIN scans :
         /\ scans[eid].pc = "fetching"
         /\ \E data \in Batches(GatherData(eid), MaxBatch) \ {<<>>} :
              /\ Evaluate(data, CycleLookup)
              /\ results' = (eid :> signals') @@ results
         /\ scans' = [scans EXCEPT ![eid] = Scanned("data")]
    /\ UNCHANGED <<sending, delivered, gatewayVars, taskVars, providerVars,
                   initVars, batchVars, sweepVars, deliveryVars>>

NextGather ==
    \/ GatherScans
    \/ ScanOneFails
    \/ ScanOneEmpty
    \/ ScanOneEvaluates
    \/ SortAllSignals
    \/ SendSignal

SpecGather == InitGather /\ [][NextGather]_vars

\* The signals of list, as a set
SignalsOf(list) ==
    {list[i] : i \in 1..Len(list)}

\* C22: the scans of a cycle are independent.  No scan_one task raises; a
\* task whose fetch raised or returned nothing returns an empty list; a
\* step of one task neither ends nor changes another task or its result;
\* the cycle goes on to sort once every task returned, and then every
\* signal of every exchange is in the list to send, which holds nothing
\* else.
ScansAreIndependent ==
    [][/\ \A eid \in DOMAIN scans' :
              /\ scans'[eid].exc = None
              /\ scans'[eid].pc = "done" =>
                     /\ eid \in DOMAIN results'
                     /\ scans'[eid].outcome \in {"raised", "empty"} =>
                            results'[eid] = <<>>
       /\ \A eid \in DOMAIN scans :
              /\ scans[eid].pc = "done" =>
                     /\ scans'[eid] = scans[eid]
                     /\ results'[eid] = results[eid]
              /\ scans[eid].pc = "fetching" =>
                     \/ scans'[eid] = scans[eid]
                     \/ /\ scans'[eid].pc = "done"
                        /\ \A other \in DOMAIN scans \ {eid} :
                               scans'[other] = scans[other]
       /\ (sending = None /\ sending' # None) =>
              /\ \A eid \in Exchanges : scans[eid].pc = "done"
              /\ SignalsOf(sending'[1]) =
                     UNION {SignalsOf(results[eid]) : eid \in Exchanges}
              /\ Len(sending'[1]) =
                     Len(results["binance"]) + Len(results["bybit"])]_vars

\* The fetch of binance raised and bybit returned nothing to one cycle's
\* gather, or binance raised while the two signals of bybit were delivered
FailedBesideDelivered ==
    /\ DOMAIN scans = Exchanges
    /\ scans["binance"].outcome = "raised"
    /\ scans["bybit"].outcome = "data"
    /\ sending = Some(<<>>)
    /\ Len(delivered) = 2
    /\ \A j \in 1..Len(delivered) : delivered[j].exchange = "bybit"

\* The signals the tasks of the cycle returned, each with its place
Returns ==
    UNION {{<<eid, i>> : i \in 1..Len(results[eid])} : eid \in DOMAIN results}

\* C24: the evaluate_batch calls of the gathered scans do not interleave.
\* Every step that touches the scanner is the whole evaluate_batch call of
\* one task: it counts all the records of its batch and stamps the keys of
\* all its signals, on the scanner the call before it left.  No (base,
\* exchange) key has two signals among those the tasks of the cycle
\* returned.
EvaluationsDoNotInterleave ==
    /\ [][(cooldowns' # cooldowns \/ coins_scanned' # coins_scanned) =>
             /\ \E eid \in DOMAIN scans :
                    /\ scans[eid].pc = "fetching"
                    /\ scans' = [scans EXCEPT ![eid] = Scanned("data")]
                    /\ results'[eid] = signals'
             /\ coins_scanned' = coins_scanned + Len(all_data')
             /\ signals_generated' = signals_generated + Len(signals')
             /\ \A j \in 1..Len(signals') :
                    cooldowns'[CooldownKey(signals'[j].base, signals'[j].exchange)] = now
             /\ DOMAIN cooldowns' = DOMAIN cooldowns \cup
                    {CooldownKey(signals'[j].base, signals'[j].exchange) :
                         j \in 1..Len(signals')}]_vars
    /\ [](\A p \in Returns : \A q \in Returns :
              (/\ results[p[1]][p[2]].base = results[q[1]][q[2]].base
               /\ results[p[1]][p[2]].exchange = results[q[1]][q[2]].exchange)
                  => p = q)

\* Both tasks evaluated two records; the last call saw two swaps of one
\* base asset and accepted the first only, and the other exchange's task
\* returned signals as well
TwoSwapsOfOneBase ==
    /\ DOMAIN scans = Exchanges
    /\ \A eid \in Exchanges : scans[eid].outcome = "data"
    /\ Len(all_data) = 2
    /\ all_data[1].base = all_data[2].base
    /\ stages = <<"signal", "cooldown">>
    /\ coins_scanned = 4
    /\ \A eid \in Exchanges : results[eid] # <<>>

(***************************************************************************)
(* src/exchanges.py: _fetch_oi_batch followed task by task.  Every target  *)
(* pair has a fetch_one task, which takes a permit, asks the exchange      *)
(* once, sleeps after a RateLimitExceeded, and returns its symbol with a   *)
(* value or None; the gather builds the dict from what the tasks returned. *)
(***************************************************************************)
\* asyncio.sleep(2) after a RateLimitExceeded, in seconds
RateLimitBackoff == 2

\* fetch_open_interest(symbol): an exception, nothing, or an
\* openInterestValue and an openInterestAmount that are missing or there
OiAnswers ==
    Outcomes({None} \cup [value : {None, Some(0), Some(30)},
                          amount : {None, Some(2)}])

\* History: what the exchange answered to a task
AnswerKind(outcome) ==
    IF outcome.exc # None THEN outcome.exc[1]
    ELSE IF outcome.raw = None THEN "empty"
    ELSE IF outcome.raw.value # None /\ outcome.raw.value[1] > 0 THEN "value"
    ELSE "amount"

\* A fetch_one task that waits for a permit
OiWaiting ==
    [pc |-> "waiting", attempts |-> 0, slept |-> 0, answer |-> "none",
     result |-> None, exc |-> None]

\* A task that asks the exchange again after its sleep
AfterSleepRetry(task) ==
    [task EXCEPT !.pc = "waiting"]

\* A task after asyncio.sleep(2): it returns (symbol, None)
AfterSleep(task) ==
    [task EXCEPT !.pc = "done", !.result = None]

\* The task after the exchange answered: it sleeps after a
\* RateLimitExceeded, and returns what OiOne gives otherwise
AfterAnswer(task, outcome, price) ==
    IF outcome.exc = Some("RateLimitExceeded")
    THEN [task EXCEPT !.pc = "sleeping", !.slept = @ + RateLimitBackoff,
                      !.answer = AnswerKind(outcome)]
    ELSE [task EXCEPT !.pc = "done", !.answer = AnswerKind(outcome),
                      !.result = OiOne(TRUE, outcome, price)]

\* fetch_all_data of binance is at its step 4 with both pairs as targets
InitOiBatch ==
    /\ ScannerIdle
    /\ InitCycleVars
    /\ exchanges = {"binance"}
    /\ futures_symbols_cache =
           [eid \in {"binance"} |-> FuturesPairs(eid, MarketBases)]
    /\ call = [NoCall EXCEPT !.pc = "oi", !.eid = "binance",
                             !.target_bases = {"AAA", "BBB"},
                             !.target_pairs = FuturesPairs("binance", MarketBases)]
    /\ oi_requested = {}
    /\ fr_requested = {}
    /\ semaphores = [eid \in {"binance"} |-> OI_CONCURRENCY]
    /\ tasks = EmptyMap
    /\ requests = EmptyMap
    /\ InitProviderVars
    /\ InitInitVars
    /\ InitScanVars
    /\ InitBatchVars
    /\ InitSweepVars
    /\ InitDeliveryVars

\* What the steps of the batch leave alone
outsideBatch ==
    <<scannerVars, cycleVars, exchanges, futures_symbols_cache, fr_requested,
      tasks, requests, providerVars, initVars, scanVars, sweepVars, deliveryVars>>

\* _fetch_oi_batch up to the gather: the tickers are fetched and a task is
\* made for every pair
OiTasksGathered ==
    /\ call.pc = "oi"
    /\ oi_batch.tasks = EmptyMap
    /\ \E has_oi \in BOOLEAN, tickers_again \in TickerOutcomes :
         oi_batch' = [has_oi |-> has_oi,
                      tickers |-> FetchAllTickers(TRUE, tickers_again).ret,
                      tasks |-> [symbol \in Symbols(call.target_pairs) |-> OiWaiting]]
    /\ call' = TickersCalled(call)
    /\ UNCHANGED <<semaphores, oi_requested, outsideBatch>>

\* async with sem: a task takes a permit and asks the exchange; on an
\* exchange without fetch_open_interest it returns (symbol, None) at once
OiTaskEnters ==
    /\ \E symbol \in DOMAIN oi_batch.tasks :
         /\ oi_batch.tasks[symbol].pc = "waiting"
         /\ CanEnter(semaphores[call.eid])
         /\ IF oi_batch.has_oi
            THEN /\ oi_batch' = [oi_batch EXCEPT !.tasks[symbol].pc = "requesting",
                                                 !.tasks[symbol].attempts = @ + 1]
                 /\ semaphores' = [semaphores EXCEPT ![call.eid] = @ - 1]
                 /\ oi_requested' = oi_requested \cup {symbol}
            ELSE /\ oi_batch' = [oi_batch EXCEPT !.tasks[symbol].pc = "done",
                                                 !.tasks[symbol].answer = "no_attr"]
                 /\ UNCHANGED <<semaphores, oi_requested>>
    /\ UNCHANGED <<call, outsideBatch>>

\* The exchange answers fetch_open_interest(symbol) or the request raises
OiTaskAnswered ==
    /\ \E symbol \in DOMAIN oi_batch.tasks :
         /\ oi_batch.tasks[symbol].pc = "requesting"
         /\ \E outcome \in OiAnswers :
              /\ oi_batch' = [oi_batch EXCEPT !.tasks[symbol] =
                     AfterAnswer(@, outcome, Get(oi_batch.tickers, symbol))]
              /\ semaphores' =
                     IF outcome.exc = Some("RateLimitExceeded") THEN semaphores
                     ELSE [semaphores EXCEPT ![call.eid] = @ + 1]
    /\ UNCHANGED <<call, oi_requested, outsideBatch>>

\* asyncio.sleep(2) is over: the task gives its permit back
OiTaskSleepOver ==
    /\ \E symbol \in DOMAIN oi_batch.tasks :
         /\ oi_batch.tasks[symbol].pc = "sleeping"
         /\ oi_batch' = [oi_batch EXCEPT !.tasks[symbol] = AfterSleep(@)]
         /\ semaphores' = [semaphores EXCEPT ![call.eid] = @ + 1]
    /\ UNCHANGED <<call, oi_requested, outsideBatch>>

\* The gather returns and out is built from the results that are not None
OiGatherReturns ==
    /\ call.pc = "oi"
    /\ oi_batch.tasks # EmptyMap
    /\ \A symbol \in DOMAIN oi_batch.tasks : oi_batch.tasks[symbol].pc = "done"
    /\ call' = [call EXCEPT
                  !.pc = "spot",
                  !.oi_data = [symbol \in {x \in DOMAIN oi_batch.tasks :
                                              oi_batch.tasks[x].result # None}
                                  |-> oi_batch.tasks[symbol].result[1]]]
    /\ UNCHANGED <<oi_batch, semaphores, oi_requested, outsideBatch>>

NextOiBatch ==
    \/ OiTasksGathered
    \/ OiTaskEnters
    \/ OiTaskAnswered
    \/ OiTaskSleepOver
    \/ OiGatherReturns

SpecOiBatch == InitOiBatch /\ [][NextOiBatch]_vars

\* C27: in the open-interest batch every task asks the exchange at most
\* once and none raises.  A task whose request met RateLimitExceeded
\* sleeps RateLimitBackoff seconds once and returns without a value, and
\* no other task sleeps; a task whose request met NotSupported or got
\* nothing returns without a value; a task that got a positive
\* openInterestValue returns a value whatever the other tasks met.  The
\* batch returns the symbols of the tasks that returned a value, and does
\* not raise.
RateLimitBacksOffOnce ==
    /\ \A symbol \in DOMAIN oi_batch.tasks :
           \A task \in {oi_batch.tasks[symbol]} :
               /\ task.attempts <= 1
               /\ task.exc = None
               /\ task.slept =
                      IF task.answer = "RateLimitExceeded" THEN RateLimitBackoff ELSE 0
               /\ task.pc = "sleeping" => task.answer = "RateLimitExceeded"
               /\ task.pc = "done" =>
                      /\ task.answer \in {"RateLimitExceeded", "NotSupported", "empty"}
                             => task.result = None
                      /\ task.answer = "value" => task.result # None
    /\ call.exc = None
    /\ call.pc = "spot" =>
           /\ DOMAIN call.oi_data =
                  {x \in DOMAIN oi_batch.tasks : oi_batch.tasks[x].result # None}
           /\ \A x \in DOMAIN oi_batch.tasks :
                  oi_batch.tasks[x].answer \in
                      {"RateLimitExceeded", "NotSupported", "empty"}
                          => x \notin DOMAIN call.oi_data

\* The batch returned the open interest of BBB alone: the request of AAA
\* met RateLimitExceeded and its task slept
RateLimitedBesideValue ==
    /\ call.pc = "spot"
    /\ oi_batch.tasks[SwapSymbol("AAA")].answer = "RateLimitExceeded"
    /\ oi_batch.tasks[SwapSymbol("AAA")].slept = RateLimitBackoff
    /\ oi_batch.tasks[SwapSymbol("AAA")].attempts = 1
    /\ oi_batch.tasks[SwapSymbol("BBB")].answer = "value"
    /\ DOMAIN call.oi_data = {SwapSymbol("BBB")}

(***************************************************************************)
(* _scan_cycle across cycles, with its send loop: the scans of the cycle,  *)
(* the merge, send_signal for one signal after the other, and what start() *)
(* does with an exception that leaves the cycle.                           *)
(***************************************************************************)
\* The records an exchange delivers in these cycles: those of AAA
DeliveryData(eid) ==
    {record \in SampleData(eid) : record.base = "AAA"}

\* What send_signal does with a signal: the message is delivered; the send
\* fails after its retries (or there is no bot) and send_signal returns;
\* an exception leaves send_signal
SendOutcomes ==
    {"delivered", "failed", "raised"}

\* A send loop that tries a failed signal again
RestAfterSendRetrying(list, outcome) ==
    IF outcome = "raised" THEN None
    ELSE IF outcome = "failed" THEN Some(list)
    ELSE Some(Tail(list))

\* all_signals still to send after send_signal(list[0]): the loop goes on
\* with the next signal, or the exception leaves _scan_cycle
RestAfterSend(list, outcome) ==
    IF outcome = "raised" THEN None ELSE Some(Tail(list))

\* The history after send_signal(list[0]): the signal with its outcome,
\* and, when the exception left the loop, the signals never sent
Logged(log, list, outcome) ==
    log \o <<[signal |-> Head(list), outcome |-> outcome]>>
        \o (IF outcome = "raised"
            THEN [i \in 1..(Len(list) - 1) |->
                     [signal |-> list[i + 1], outcome |-> "dropped"]]
            ELSE <<>>)

InitDelivery ==
    Init

\* What the steps of the followed cycle leave alone
outsideDelivery ==
    <<gatewayVars, taskVars, providerVars, initVars, scanVars, batchVars, sweepVars>>

\* _scan_cycle begins: the cycle is counted
DeliveryCycleBegin ==
    /\ cycle_pc = "rest"
    /\ cycle < MaxCycles
    /\ cycle' = cycle + 1
    /\ cycle_scanned' = 0
    /\ results' = EmptyMap
    /\ sending' = None
    /\ delivered' = <<>>
    /\ cycle_pc' = "scan"
    /\ UNCHANGED <<MAX_MARKET_CAP, now, cooldowns, signals_generated,
                   coins_scanned, coins_passed_filter, all_data, mcap_lookup,
                   stages, signals, emitted, unpruned, phase, send_log,
                   outsideDelivery>>

\* scan_one(eid) of the cycle: evaluate_batch on what the exchange delivered
DeliveryScanOne ==
    /\ cycle_pc = "scan"
    /\ \E eid \in Exchanges \ DOMAIN results :
         \E data \in Batches(DeliveryData(eid), 1) :
           /\ Evaluate(data, CycleLookup)
           /\ results' = (eid :> signals') @@ results
    /\ UNCHANGED <<sending, delivered, deliveryVars, outsideDelivery>>

\* The results are gathered, merged and sorted
DeliverySortAll ==
    /\ cycle_pc = "scan"
    /\ DOMAIN results = Exchanges
    /\ \E order \in ExchangeOrders :
         sending' = Some(SortByScore(ExtendAll(order, results)))
    /\ cycle_pc' = "send"
    /\ UNCHANGED <<scannerVars, results, delivered, send_log, outsideDelivery>>

\* await self.telegram.send_signal(signal) for the next of all_signals; an
\* exception leaves _scan_cycle and is caught by the loop of start()
DeliverySend ==
    /\ cycle_pc = "send"
    /\ sending[1] # <<>>
    /\ \E outcome \in SendOutcomes :
         /\ sending' = RestAfterSend(sending[1], outcome)
         /\ send_log' = Logged(send_log, sending[1], outcome)
         /\ delivered' = IF outcome = "delivered"
                         THEN Append(delivered, Head(sending[1]))
                         ELSE delivered
         /\ cycle_pc' = IF outcome = "raised" THEN "rest" ELSE "send"
    /\ UNCHANGED <<scannerVars, results, outsideDelivery>>

\* The send loop is over: every tenth cycle sweeps the cooldowns, and
\* _scan_cycle returns
DeliveryCycleEnd ==
    /\ cycle_pc = "send"
    /\ sending[1] = <<>>
    /\ cycle_pc' = "rest"
    /\ IF cycle % 10 = 0
       THEN /\ cooldowns' = CleanupCooldowns(cooldowns, now)
            /\ swept' = ~swept
       ELSE UNCHANGED <<cooldowns, swept>>
    /\ UNCHANGED <<MAX_MARKET_CAP, now, signals_generated, coins_scanned,
                   coins_passed_filter, all_data, mcap_lookup, stages, signals,
                   cycle, cycle_scanned, emitted, unpruned, phase, cycleVars,
                   send_log, gatewayVars, taskVars, providerVars, initVars,
                   scanVars, batchVars>>

NextDelivery ==
    \/ DeliveryCycleBegin
    \/ DeliveryScanOne
    \/ DeliverySortAll
    \/ DeliverySend
    \/ DeliveryCycleEnd
    \/ Tick

SpecDelivery == InitDelivery /\ [][NextDelivery]_vars

\* The history entries of the signals that were not delivered: the send
\* failed, send_signal raised, or the loop was left before their turn
Undelivered ==
    {i \in 1..Len(send_log) : send_log[i].outcome # "delivered"}

\* C34: the cooldown entry of a signal is stamped when evaluate_batch
\* accepts the record, before send_signal is called for it: at the call
\* the entry of its (base, exchange) holds the signal's time.  Every
\* accepted signal is passed to send_signal at most once, whatever the
\* outcome.  After a signal was not delivered (the send failed, send_signal
\* raised, or an exception of an earlier signal left the loop), a signal
\* of its (base, exchange) is emitted again only SIGNAL_COOLDOWN or more
\* after it.
StampedBeforeDelivery ==
    /\ [](\A i, j \in 1..Len(send_log) :
              i # j => send_log[i].signal # send_log[j].signal)
    /\ [][send_log' # send_log =>
             cooldowns[CooldownKey(Head(sending[1]).base, Head(sending[1]).exchange)]
                 = Head(sending[1]).timestamp]_vars
    /\ [][Called =>
             \A j \in 1..Len(signals') : \A i \in Undelivered :
                 (/\ send_log[i].signal.base = signals'[j].base
                  /\ send_log[i].signal.exchange = signals'[j].exchange)
                     => now - send_log[i].signal.timestamp >= SIGNAL_COOLDOWN]_vars

\* send_signal raised for a signal and the loop was left with another
\* signal unsent; the next cycle, within the window, met the record of the
\* first again and rejected it at the cooldown stage
UndeliveredStaysOnCooldown ==
    /\ cycle = 2
    /\ \E i \in 1..Len(send_log) : send_log[i].outcome = "dropped"
    /\ \E i \in 1..Len(send_log) :
           /\ send_log[i].outcome = "raised"
           /\ now - send_log[i].signal.timestamp < SIGNAL_COOLDOWN
           /\ Len(all_data) = 1
           /\ stages = <<"cooldown">>
           /\ all_data[1].base = send_log[i].signal.base
           /\ all_data[1].exchange = send_log[i].signal.exchange

====
